---- MODULE Spec2Model ----
(***************************************************************************)
(* Model of the encrypted message store of signal-tui                      *)
(* (src/message_store.py, class MessageStore) and of the importer that     *)
(* fills it from the database of Signal Desktop (src/desktop_import.py,    *)
(* class SignalDesktopImporter).                                           *)
(*                                                                         *)
(* The two tables the store's message path works on are the state:         *)
(*   messages       the rows of table `messages`, as a bag: each row value *)
(*                  with the number of rows that hold it (the column id is *)
(*                  left out: no query selects by it, and what             *)
(*                  save_message returns of it, cursor.lastrowid, is given *)
(*                  by operator lastrowid)                                 *)
(*   conversations  the rows of table `conversations`, a function from the *)
(*                  stored primary keys to the rows                        *)
(* Every public mutating method is one action.  Read-only queries          *)
(* (get_messages, get_unread_count, get_message_count) are operators on    *)
(* the state.  Where SQL leaves the order of rows with equal sort keys     *)
(* open, the model takes every order.                                      *)
(*                                                                         *)
(* Message.timestamp is a datetime; it is modelled as an integer number of *)
(* microseconds since the epoch (the resolution of datetime).  Columns     *)
(* received_at, hasAttachments and attachments_json are written once and   *)
(* read by no operation modelled here; they are left out.  Message fields  *)
(* have their declared types (sender, body: str), so no column of the      *)
(* dedup key is NULL.                                                      *)
(*                                                                         *)
(* The importer is a sequential process over the same store:               *)
(*   foreign        the database of Signal Desktop: its conversations in   *)
(*                  the order get_conversations returns them, each with    *)
(*                  its message rows in the order                          *)
(*                  get_messages_for_conversation returns them             *)
(*   imp            the frame of import_all: the position in its loop, its *)
(*                  counters, the clock datetime.now() reads, and the      *)
(*                  number of completed runs                               *)
(*   progress       the calls of progress_callback made by the current run *)
(*   results        what each completed run of import_all returned and     *)
(*                  left in the store                                      *)
(*   desktop        what the importer finds on the machine: whether the    *)
(*                  database file of Signal Desktop exists, config.json,   *)
(*                  the entry of Signal Desktop in the credential store,   *)
(*                  and the key that opens the database                    *)
(*   session        the importer object: _key, _conn, whether the          *)
(*                  connection was given the right key, the number of runs *)
(*                  of `security` so far, and the last public call with    *)
(*                  its outcome                                            *)
(*                                                                         *)
(* The key of the store itself is kept in the credential store:            *)
(*   vault          the entry of the store in the credential store, and    *)
(*                  the last call of get_or_create_encryption_key: what it *)
(*                  returned or raised and the key it generated            *)
(* import_all is one action per store call it makes, so that the order of  *)
(* its calls is visible; the store is used by one caller at a time, so no  *)
(* other operation runs while import_all does.                             *)
(*                                                                         *)
(* Four more variables serve the specifications that look closer:          *)
(*   codec          the last envelope the safeStorage codec made and the   *)
(*                  last decryption of it, computed byte by byte           *)
(*   call           the frame of a call of save_message or                 *)
(*                  mark_messages_read that runs statement by statement,   *)
(*                  so that the committed state between its statements and *)
(*                  the end of the process there are visible; also the     *)
(*                  frame of import_from_desktop around import_all         *)
(*   store          the MessageStore object and its database file: _conn,  *)
(*                  _encryption_key, the handles that are open, the counts *)
(*                  of opens, closes and vault calls, the key the file is  *)
(*                  encrypted with, and the last call with its outcome     *)
(*   threads        two threads inside calls of one shared store: the      *)
(*                  tables as they were when the threads started, and the  *)
(*                  frame of each thread                                   *)
(***************************************************************************)
EXTENDS Integers, Sequences, FiniteSets, Bags, TLC

VARIABLES messages, conversations, lastOp, commits,
          foreign, imp, progress, results, desktop, session, vault,
          codec, call, store, threads

vars == <<messages, conversations, lastOp, commits,
          foreign, imp, progress, results, desktop, session, vault,
          codec, call, store, threads>>

\* the variables of the importer, of the key of the store, of the codec and
\* of the statement-by-statement view of the store, which the operations of
\* the store leave alone
importer == <<foreign, imp, progress, results, desktop, session, vault,
              codec, call, store, threads>>

----------------------------------------------------------------------------
(* Bounds of the model.                                                    *)

MaxRows == 2

MaxUnread == 2

MaxBatch == 2

MaxAccesses == 2

MaxKeyLen == 2

MaxBlocks == 2

MaxRowId == 3

MaxOpens == 3

----------------------------------------------------------------------------
(* Values.                                                                 *)

\* SQL NULL of the integer column lastMessageAt (stored times are >= 0)
NULL == -1

PreviewLen == 100

AttachmentPlaceholder == <<"[", "A", "t", "t", "a", "c", "h", "m", "e", "n", "t", "]">>

EmptyBody == <<>>

ShortBody == <<"h", "i">>

Bodies == {EmptyBody, ShortBody}

\* a body one character longer than a preview, the last character unlike
\* the others
LongBody == [i \in 1..(PreviewLen + 1) |-> IF i <= PreviewLen THEN "a" ELSE "b"]

\* Python's None for an optional argument
None == -1

\* datetime.now(), in microseconds: later than every timestamp of the model
Now == 9000

\* the arguments handed to get_messages
Limits == 0..MaxRows

Befores == {None} \cup 0..3

ConvIds == {"+1", "g1"}

Senders == {"+1"}

Names == {"Bo"}

SenderNames == {"", "Bo"}

\* Message.timestamp, in microseconds
Timestamps == {1000, 2500}

Min(a, b) == IF a <= b THEN a ELSE b

\* conversation_id.startswith("+")
StartsWithPlus(c) == c = "+1"

\* int(message.timestamp.timestamp() * 1000): microseconds to whole
\* milliseconds, truncated
SentAtOf(ts) == ts \div 1000

\* the body without the slice [:100]
Preview_NoSlice(body) == IF body = <<>> THEN AttachmentPlaceholder ELSE body

\* message.body[:100] if message.body else "[Attachment]"
Preview(body) ==
    IF body = <<>> THEN AttachmentPlaceholder
    ELSE SubSeq(body, 1, Min(PreviewLen, Len(body)))

\* signal_client.Message, with bodies drawn from B
MessagesOver(B) ==
    [sender : Senders, sender_name : SenderNames, body : B,
     timestamp : Timestamps, is_outgoing : BOOLEAN, is_read : BOOLEAN]

----------------------------------------------------------------------------
(* Table messages.                                                         *)

\* the columns of the UNIQUE constraint of table messages
DedupKey(r) == <<r.conversationId, r.sent_at, r.source, r.body>>

StoredKeys(msgs) == {DedupKey(r) : r \in BagToSet(msgs)}

\* SELECT COUNT(*) FROM messages
get_message_count(msgs) == BagCardinality(msgs)

\* the row save_message binds to its INSERT
SaveRow(c, m) ==
    [conversationId |-> c, source |-> m.sender, body |-> m.body,
     sent_at |-> SentAtOf(m.timestamp),
     type |-> IF m.is_outgoing THEN "outgoing" ELSE "incoming",
     isRead |-> (m.is_read \/ m.is_outgoing)]

\* the row of bulk_insert_messages with isRead bound as save_message binds it
BulkRow_KeepReadFlag(c, m) ==
    [conversationId |-> c, source |-> m.sender, body |-> m.body,
     sent_at |-> SentAtOf(m.timestamp),
     type |-> IF m.is_outgoing THEN "outgoing" ELSE "incoming",
     isRead |-> (m.is_read \/ m.is_outgoing)]

\* the row bulk_insert_messages binds to its INSERT: isRead is always 1
BulkRow(c, m) ==
    [conversationId |-> c, source |-> m.sender, body |-> m.body,
     sent_at |-> SentAtOf(m.timestamp),
     type |-> IF m.is_outgoing THEN "outgoing" ELSE "incoming",
     isRead |-> TRUE]

\* cursor.rowcount of INSERT OR IGNORE INTO messages: 0 when the UNIQUE
\* constraint rejects the row
RowCount(msgs, row) == IF DedupKey(row) \in StoredKeys(msgs) THEN 0 ELSE 1

\* the row ids of the model (SQLite counts them from 1)
RowIds == 1..MaxRowId

\* cursor.lastrowid after the INSERT OR IGNORE of save_message: every value
\* it can hold.  For a row that was inserted it is the id of that row,
\* which AUTOINCREMENT makes greater than every id the table has had (an
\* ignored INSERT uses an id up too).  For a row that was ignored it is
\* sqlite3_last_insert_rowid() of the connection: the row id of the last
\* INSERT that succeeded on it in any table (messages, conversations,
\* contacts, groups, cache_meta, schema_version), which the construction of
\* a new store has already made
lastrowid(msgs, row) ==
    IF RowCount(msgs, row) > 0
    THEN {n \in RowIds : n > BagCardinality(msgs)}
    ELSE RowIds

\* INSERT OR REPLACE: the stored row with the same dedup key is deleted
InsertOrIgnore_Replace(msgs, row) ==
    LET kept == {r \in BagToSet(msgs) : DedupKey(r) # DedupKey(row)}
    IN [r \in kept |-> msgs[r]] (+) SetToBag({row})

\* INSERT without OR IGNORE and without the UNIQUE constraint
InsertOrIgnore_NoIgnore(msgs, row) == msgs (+) SetToBag({row})

\* INSERT OR IGNORE INTO messages
InsertOrIgnore(msgs, row) ==
    IF DedupKey(row) \in StoredKeys(msgs) THEN msgs
    ELSE msgs (+) SetToBag({row})

\* the rows of table messages one by one: <<row value, copy number>>
Instances(msgs) == UNION {{<<r, k>> : k \in 1..msgs[r]} : r \in BagToSet(msgs)}

RowsOf(msgs, c) == {i \in Instances(msgs) : i[1].conversationId = c}

\* UPDATE messages SET isRead = 1 WHERE isRead = 0, in every conversation
MarkedRead_AllConversations(msgs, c) ==
    LET Old(r) == IF r \in BagToSet(msgs) THEN msgs[r] ELSE 0
    IN [r \in {[q EXCEPT !.isRead = TRUE] : q \in BagToSet(msgs)} |->
          Old(r) + Old([r EXCEPT !.isRead = FALSE])]

\* the rows of table messages after UPDATE messages SET isRead = 1
\* WHERE conversationId = c AND isRead = 0
MarkedRead(msgs, c) ==
    LET Upd(r) == IF r.conversationId = c /\ ~r.isRead
                  THEN [r EXCEPT !.isRead = TRUE] ELSE r
        Unread(r) == [r EXCEPT !.isRead = FALSE]
        Old(r) == IF r \in BagToSet(msgs) THEN msgs[r] ELSE 0
    IN [r \in {Upd(q) : q \in BagToSet(msgs)} |->
          IF r.conversationId = c THEN Old(r) + Old(Unread(r)) ELSE Old(r)]

\* the loop of bulk_insert_messages over the first n pairs of the batch:
\* the table and the counter `inserted` after them
RECURSIVE BulkLoop(_, _, _)
BulkLoop(msgs, batch, n) ==
    IF n = 0 THEN [msgs |-> msgs, inserted |-> 0]
    ELSE LET prev == BulkLoop(msgs, batch, n - 1)
             row  == BulkRow(batch[n][1], batch[n][2])
         IN [msgs |-> InsertOrIgnore(prev.msgs, row),
             inserted |-> IF RowCount(prev.msgs, row) > 0
                          THEN prev.inserted + 1 ELSE prev.inserted]

\* conn.commit() inside the loop, after every pair
BulkCommitPoints_PerRow(batch) == [k \in 1..Len(batch) |-> k]

\* the points at which bulk_insert_messages calls conn.commit(), as the
\* number of pairs processed before each: once, after the loop
BulkCommitPoints(batch) == <<Len(batch)>>

----------------------------------------------------------------------------
(* Table conversations.                                                    *)

\* INSERT INTO conversations of a row whose id is not stored
InsertConversation(convs, c, row) ==
    [k \in DOMAIN convs \cup {c} |-> IF k = c THEN row ELSE convs[k]]

\* _update_conversation_on_message without the test sent_at >= lastMessageAt
UpdateConversationOnMessage_AlwaysUpdate(convs, c, m) ==
    IF c \in DOMAIN convs
    THEN [convs EXCEPT ![c] =
            [@ EXCEPT
               !.lastMessage = Preview(m.body),
               !.lastMessageAt = SentAtOf(m.timestamp),
               !.unreadCount =
                  IF ~m.is_outgoing /\ ~m.is_read THEN @ + 1 ELSE @]]
    ELSE InsertConversation(convs, c,
            [name |-> IF m.sender_name # "" THEN m.sender_name ELSE c,
             type |-> IF StartsWithPlus(c) THEN "private" ELSE "group",
             lastMessage |-> Preview(m.body),
             lastMessageAt |-> SentAtOf(m.timestamp),
             unreadCount |-> IF m.is_outgoing THEN 0 ELSE 1])

\* MessageStore._update_conversation_on_message
UpdateConversationOnMessage(convs, c, m) ==
    LET sent_at  == SentAtOf(m.timestamp)
    IN IF c \in DOMAIN convs
       THEN IF convs[c].lastMessageAt = NULL \/ sent_at >= convs[c].lastMessageAt
            THEN [convs EXCEPT ![c] =
                    [@ EXCEPT
                       !.lastMessage = Preview(m.body),
                       !.lastMessageAt = sent_at,
                       !.unreadCount =
                          IF ~m.is_outgoing /\ ~m.is_read THEN @ + 1 ELSE @]]
            ELSE convs
       ELSE InsertConversation(convs, c,
               [name |-> IF m.sender_name # "" THEN m.sender_name ELSE c,
                type |-> IF StartsWithPlus(c) THEN "private" ELSE "group",
                lastMessage |-> Preview(m.body),
                lastMessageAt |-> sent_at,
                unreadCount |-> IF m.is_outgoing THEN 0 ELSE 1])

\* ORDER BY sent_at ASC LIMIT 1: a row with the least sent_at
NewestRows_Oldest(msgs, c) ==
    {r \in {i[1] : i \in RowsOf(msgs, c)} :
        \A q \in RowsOf(msgs, c) : q[1].sent_at >= r.sent_at}

\* the rows SELECT ... WHERE conversationId = ? ORDER BY sent_at DESC LIMIT 1
\* can return: any row of the conversation with the greatest sent_at
NewestRows(msgs, c) ==
    {r \in {i[1] : i \in RowsOf(msgs, c)} :
        \A q \in RowsOf(msgs, c) : q[1].sent_at <= r.sent_at}

\* the UPDATE with WHERE id = ? AND lastMessageAt IS NULL
AggregateFromRow_OnlyIfNull(convs, c, row) ==
    IF c \in DOMAIN convs /\ convs[c].lastMessageAt = NULL
    THEN [convs EXCEPT ![c] = [@ EXCEPT !.lastMessage = Preview(row.body),
                                        !.lastMessageAt = row.sent_at]]
    ELSE convs

\* the UPDATE of update_conversation_from_messages, given the selected row
AggregateFromRow(convs, c, row) ==
    IF c \in DOMAIN convs
       /\ (convs[c].lastMessageAt = NULL \/ convs[c].lastMessageAt < row.sent_at)
    THEN [convs EXCEPT ![c] = [@ EXCEPT !.lastMessage = Preview(row.body),
                                        !.lastMessageAt = row.sent_at]]
    ELSE convs

----------------------------------------------------------------------------
(* Queries.                                                                *)

\* MessageStore.get_unread_count
get_unread_count(msgs, c) ==
    Cardinality({i \in RowsOf(msgs, c) : ~i[1].isRead /\ i[1].type = "incoming"})

\* the WHERE clause of get_messages: `if before_timestamp:` adds
\* sent_at < before_timestamp
Selected(msgs, c, before_timestamp) ==
    IF before_timestamp # None /\ before_timestamp # 0
    THEN {i \in RowsOf(msgs, c) : i[1].sent_at < before_timestamp}
    ELSE RowsOf(msgs, c)

\* ORDER BY sent_at DESC: every listing of the rows S with sent_at descending
OrderBySentAtDesc(S) ==
    {s \in [1..Cardinality(S) -> S] :
        /\ \A i, j \in 1..Cardinality(S) : i # j => s[i] # s[j]
        /\ \A i, j \in 1..Cardinality(S) : i < j => s[i][1].sent_at >= s[j][1].sent_at}

\* LIMIT ?
Limit(s, limit) == SubSeq(s, 1, Min(limit, Len(s)))

\* the rows left in the order of the query
Reversed_Not(s) == s

\* reversed(rows)
Reversed(s) == [i \in 1..Len(s) |-> s[Len(s) + 1 - i]]

\* the rows get_messages walks, in the order it walks them
SelectMessages(msgs, c, limit, before_timestamp) ==
    {Reversed(Limit(s, limit)) :
        s \in OrderBySentAtDesc(Selected(msgs, c, before_timestamp))}

\* the Message get_messages builds from a row
RowToMessage(r, c) ==
    [sender |-> r.source, sender_name |-> "", body |-> r.body,
     timestamp |-> IF r.sent_at # 0 THEN r.sent_at * 1000 ELSE Now,
     is_outgoing |-> (r.type = "outgoing"),
     group_id |-> IF ~StartsWithPlus(c) THEN c ELSE "",
     is_read |-> r.isRead]

\* MessageStore.get_messages: the lists it can return
get_messages(msgs, c, limit, before_timestamp) ==
    {[i \in 1..Len(s) |-> RowToMessage(s[i][1], c)] :
        s \in SelectMessages(msgs, c, limit, before_timestamp)}

\* NULLS FIRST: the sort key with NULL before every time
OrderKey_NullsFirst(at) == IF at = NULL THEN <<0, 0>> ELSE <<1, 0 - at>>

\* the sort key of ORDER BY lastMessageAt DESC NULLS LAST, least first: the
\* NULLs after every time, the times from the greatest down
OrderKey(at) == IF at = NULL THEN <<1, 0>> ELSE <<0, 0 - at>>

\* key a does not sort after key b
KeyLeq(a, b) == a[1] < b[1] \/ (a[1] = b[1] /\ a[2] <= b[2])

\* SELECT * FROM conversations ORDER BY lastMessageAt DESC NULLS LAST: the
\* primary keys in every order the query can return them
OrderByLastMessageAt(convs) ==
    LET n == Cardinality(DOMAIN convs)
    IN {s \in [1..n -> DOMAIN convs] :
          /\ \A i, j \in 1..n : i # j => s[i] # s[j]
          /\ \A i, j \in 1..n :
                i < j => KeyLeq(OrderKey(convs[s[i]].lastMessageAt),
                                OrderKey(convs[s[j]].lastMessageAt))}

\* the StoredConversation get_all_conversations builds from the row of
\* primary key c
StoredConversation(c, row) ==
    [id |-> c,
     name |-> IF row.name # "" THEN row.name ELSE c,
     type |-> IF row.type # "" THEN row.type ELSE "private",
     last_message |-> row.lastMessage,
     last_message_at |-> row.lastMessageAt,
     unread_count |-> row.unreadCount]

\* MessageStore.get_all_conversations: the lists it can return
get_all_conversations(convs) ==
    {[i \in 1..Len(s) |-> StoredConversation(s[i], convs[s[i]])] :
        s \in OrderByLastMessageAt(convs)}

\* the aggregate of conversation c agrees with its stored messages
Aggregated(msgs, convs, c) ==
    RowsOf(msgs, c) # {} =>
       /\ c \in DOMAIN convs
       /\ \A i \in RowsOf(msgs, c) : i[1].sent_at <= convs[c].lastMessageAt
       /\ \E i \in RowsOf(msgs, c) :
             /\ i[1].sent_at = convs[c].lastMessageAt
             /\ Preview(i[1].body) = convs[c].lastMessage

----------------------------------------------------------------------------
(* Text encodings of keys: str.lower, bytes.hex, bytes.fromhex and base64, *)
(* on sequences of characters and sequences of bytes (0..255).             *)

\* the base64 alphabet; the letters of str.lower are its first 52 entries
B64Alphabet ==
    <<"A", "B", "C", "D", "E", "F", "G", "H", "I", "J", "K", "L", "M",
      "N", "O", "P", "Q", "R", "S", "T", "U", "V", "W", "X", "Y", "Z",
      "a", "b", "c", "d", "e", "f", "g", "h", "i", "j", "k", "l", "m",
      "n", "o", "p", "q", "r", "s", "t", "u", "v", "w", "x", "y", "z",
      "0", "1", "2", "3", "4", "5", "6", "7", "8", "9", "+", "/">>

HexDigits ==
    <<"0", "1", "2", "3", "4", "5", "6", "7", "8", "9",
      "a", "b", "c", "d", "e", "f">>

\* the position of character ch in alphabet A, from 0; Len(A) when absent
IndexIn(A, ch) ==
    IF \E i \in 1..Len(A) : A[i] = ch
    THEN (CHOOSE i \in 1..Len(A) : A[i] = ch) - 1
    ELSE Len(A)

\* str.lower of one character
Lower(ch) ==
    IF IndexIn(B64Alphabet, ch) < 26
    THEN B64Alphabet[IndexIn(B64Alphabet, ch) + 27] ELSE ch

\* all(c in "0123456789abcdef" for c in key.lower())
IsHex(key) ==
    \A i \in 1..Len(key) : IndexIn(HexDigits, Lower(key[i])) < 16

\* bytes.hex()
RECURSIVE Hex(_)
Hex(bytes) ==
    IF bytes = <<>> THEN <<>>
    ELSE <<HexDigits[(bytes[1] \div 16) + 1], HexDigits[(bytes[1] % 16) + 1]>>
         \o Hex(Tail(bytes))

\* bytes.fromhex() succeeds: hex digits of either case, two per byte
FromHexOk(hex) == IsHex(hex) /\ Len(hex) % 2 = 0

\* bytes.fromhex()
RECURSIVE FromHex(_)
FromHex(hex) ==
    IF Len(hex) < 2 THEN <<>>
    ELSE <<IndexIn(HexDigits, Lower(hex[1])) * 16
           + IndexIn(HexDigits, Lower(hex[2]))>>
         \o FromHex(SubSeq(hex, 3, Len(hex)))

\* base64.b64encode()
RECURSIVE b64encode(_)
b64encode(bytes) ==
    LET A == B64Alphabet
        n == bytes[1] * 65536
             + (IF Len(bytes) > 1 THEN bytes[2] * 256 ELSE 0)
             + (IF Len(bytes) > 2 THEN bytes[3] ELSE 0)
    IN IF bytes = <<>> THEN <<>>
       ELSE <<A[(n \div 262144) + 1], A[((n \div 4096) % 64) + 1],
              IF Len(bytes) > 1 THEN A[((n \div 64) % 64) + 1] ELSE "=",
              IF Len(bytes) > 2 THEN A[(n % 64) + 1] ELSE "=">>
            \o (IF Len(bytes) > 3 THEN b64encode(SubSeq(bytes, 4, Len(bytes)))
                ELSE <<>>)

\* base64.b64decode() succeeds.  The default mode drops characters outside
\* the alphabet; what is left must be groups of four characters, with "="
\* only as the last one or two characters of the last group
B64DecodeOk(text) ==
    LET t == SelectSeq(text, LAMBDA ch : IndexIn(B64Alphabet, ch) < 64 \/ ch = "=")
    IN /\ Len(t) % 4 = 0
       /\ \A i \in 1..Len(t) :
             t[i] = "=" => /\ i >= Len(t) - 1
                           /\ i = Len(t) - 1 => t[Len(t)] = "="

\* base64.b64decode() of a text on which it succeeds
RECURSIVE B64DecodeGroups(_)
B64DecodeGroups(t) ==
    IF Len(t) < 4 THEN <<>>
    ELSE LET v(i) == IF t[i] = "=" THEN 0 ELSE IndexIn(B64Alphabet, t[i])
             n == v(1) * 262144 + v(2) * 4096 + v(3) * 64 + v(4)
         IN (IF t[3] = "=" THEN <<n \div 65536>>
             ELSE IF t[4] = "=" THEN <<n \div 65536, (n \div 256) % 256>>
             ELSE <<n \div 65536, (n \div 256) % 256, n % 256>>)
            \o B64DecodeGroups(SubSeq(t, 5, Len(t)))

b64decode(text) ==
    B64DecodeGroups(SelectSeq(text,
       LAMBDA ch : IndexIn(B64Alphabet, ch) < 64 \/ ch = "="))

\* str.strip() of the output of `security`: the trailing newline goes
RECURSIVE Strip(_)
Strip(text) ==
    IF text # <<>> /\ text[Len(text)] \in {"\n", " "}
    THEN Strip(SubSeq(text, 1, Len(text) - 1))
    ELSE IF text # <<>> /\ text[1] \in {"\n", " "}
    THEN Strip(Tail(text))
    ELSE text

----------------------------------------------------------------------------
(* Search.                                                                 *)

\* the queries handed to search_messages: letters in either case, the two
\* wildcards of LIKE, a text no body holds, and the empty text
Queries == {<<"H">>, <<"h", "i">>, <<"_">>, <<"%">>, <<"x">>, <<>>}

\* text LIKE pattern as SQLite evaluates it: % matches any run of
\* characters, _ any one character, letters match in either case; there is
\* no escape character
RECURSIVE Like(_, _)
Like(pattern, text) ==
    IF pattern = <<>> THEN text = <<>>
    ELSE IF pattern[1] = "%"
    THEN Like(Tail(pattern), text) \/ (text # <<>> /\ Like(pattern, Tail(text)))
    ELSE IF text = <<>> THEN FALSE
    ELSE IF pattern[1] = "_" THEN Like(Tail(pattern), Tail(text))
    ELSE Lower(pattern[1]) = Lower(text[1]) /\ Like(Tail(pattern), Tail(text))

\* search_pattern = f"%{query}%"
search_pattern(query) == <<"%">> \o query \o <<"%">>

\* the rows of SELECT * FROM messages WHERE body LIKE ? ORDER BY sent_at
\* DESC LIMIT ?, in every order the query can return them
SearchRows(msgs, query, limit) ==
    {Limit(s, limit) :
        s \in OrderBySentAtDesc({i \in Instances(msgs) :
                                   Like(search_pattern(query), i[1].body)})}

\* MessageStore.search_messages: the lists of (conversation_id, Message) it
\* can return
search_messages(msgs, query, limit) ==
    {[k \in 1..Len(s) |->
        <<s[k][1].conversationId,
          [sender |-> s[k][1].source, sender_name |-> "", body |-> s[k][1].body,
           timestamp |-> IF s[k][1].sent_at # 0 THEN s[k][1].sent_at * 1000
                         ELSE Now,
           is_outgoing |-> (s[k][1].type = "outgoing"),
           group_id |-> "",
           is_read |-> s[k][1].isRead]>>] :
        s \in SearchRows(msgs, query, limit)}

----------------------------------------------------------------------------
(* The safeStorage codec, byte by byte.  Text is a sequence of Unicode     *)
(* code points, data a sequence of bytes (0..255).  PBKDF2-HMAC-SHA1 and   *)
(* AES-128 are library code; they are modelled by stand-ins that have the  *)
(* properties the codec relies on: the derived key is a function of the    *)
(* password and the iteration count, and under each key the block cipher   *)
(* is a permutation of the 16-byte blocks, computed in one direction by    *)
(* the encryptor and in the other by the decryptor.                        *)

\* the block length of AES, in bytes
BlockSize == 16

\* b"v10", b"v11" and b"v99"
TagV10 == <<118, 49, 48>>

TagV11 == <<118, 49, 49>>

TagV99 == <<118, 57, 57>>

\* iv = b" " * 16
IV == [i \in 1..BlockSize |-> 32]

\* bitwise exclusive or of two bytes
RECURSIVE Xor(_, _)
Xor(a, b) ==
    IF a = 0 /\ b = 0 THEN 0
    ELSE ((a + b) % 2) + 2 * Xor(a \div 2, b \div 2)

XorBlock(x, y) == [i \in 1..BlockSize |-> Xor(x[i], y[i])]

RECURSIVE SumOf(_)
SumOf(bytes) == IF bytes = <<>> THEN 0 ELSE bytes[1] + SumOf(Tail(bytes))

\* kdf.derive(password) of PBKDF2HMAC(SHA1, length=16, salt=b"saltysalt",
\* iterations): 16 bytes that depend on the password and on the iteration
\* count
derive(password, iterations) ==
    [i \in 1..BlockSize |->
       (SumOf(password) + 3 * Len(password) + 7 * i + iterations) % 256]

\* the block cipher under a key, as the encryptor applies it to one block
EncryptBlock(key, block) ==
    [i \in 1..BlockSize |-> (block[(i % BlockSize) + 1] + key[i]) % 256]

\* the block cipher under a key, as the decryptor applies it to one block
DecryptBlock(key, block) ==
    [j \in 1..BlockSize |->
       LET i == ((j + BlockSize - 2) % BlockSize) + 1
       IN (block[i] + 256 - key[i]) % 256]

\* encryptor.update(padded) + encryptor.finalize() in CBC mode, on data of
\* whole blocks; prev is the IV or the previous block of ciphertext
RECURSIVE CBCEncrypt(_, _, _)
CBCEncrypt(key, prev, data) ==
    IF Len(data) < BlockSize THEN <<>>
    ELSE LET c == EncryptBlock(key, XorBlock(SubSeq(data, 1, BlockSize), prev))
         IN c \o CBCEncrypt(key, c, SubSeq(data, BlockSize + 1, Len(data)))

\* decryptor.update(ciphertext) + decryptor.finalize() in CBC mode, on
\* ciphertext of whole blocks
RECURSIVE CBCDecrypt(_, _, _)
CBCDecrypt(key, prev, ciphertext) ==
    IF Len(ciphertext) < BlockSize THEN <<>>
    ELSE LET c == SubSeq(ciphertext, 1, BlockSize)
         IN XorBlock(DecryptBlock(key, c), prev)
            \o CBCDecrypt(key, c, SubSeq(ciphertext, BlockSize + 1, Len(ciphertext)))

\* str.encode("utf-8") of code points below 65536 that are no surrogates
RECURSIVE encode_utf8(_)
encode_utf8(text) ==
    IF text = <<>> THEN <<>>
    ELSE LET cp == text[1]
         IN (IF cp < 128 THEN <<cp>>
             ELSE IF cp < 2048 THEN <<192 + (cp \div 64), 128 + (cp % 64)>>
             ELSE <<224 + (cp \div 4096), 128 + ((cp \div 64) % 64),
                    128 + (cp % 64)>>)
            \o encode_utf8(Tail(text))

\* the number of bytes of the UTF-8 sequence that starts at the head of
\* data; 0 when no well-formed sequence starts there
Utf8Len(data) ==
    LET b == data[1]
        Cont(k) == k <= Len(data) /\ data[k] >= 128 /\ data[k] <= 191
    IN IF b < 128 THEN 1
       ELSE IF b >= 194 /\ b <= 223 /\ Cont(2) THEN 2
       ELSE IF /\ b >= 224 /\ b <= 239 /\ Cont(2) /\ Cont(3)
               /\ (b = 224 => data[2] >= 160)
               /\ (b = 237 => data[2] <= 159) THEN 3
       ELSE IF /\ b >= 240 /\ b <= 244 /\ Cont(2) /\ Cont(3) /\ Cont(4)
               /\ (b = 240 => data[2] >= 144)
               /\ (b = 244 => data[2] <= 143) THEN 4
       ELSE 0

\* bytes.decode("utf-8") succeeds
RECURSIVE DecodeUtf8Ok(_)
DecodeUtf8Ok(data) ==
    \/ data = <<>>
    \/ /\ Utf8Len(data) > 0
       /\ DecodeUtf8Ok(SubSeq(data, Utf8Len(data) + 1, Len(data)))

\* bytes.decode("utf-8") of data on which it succeeds
RECURSIVE decode_utf8(_)
decode_utf8(data) ==
    IF data = <<>> THEN <<>>
    ELSE LET n == Utf8Len(data)
             cp == IF n = 1 THEN data[1]
                   ELSE IF n = 2 THEN (data[1] - 192) * 64 + (data[2] - 128)
                   ELSE IF n = 3
                   THEN (data[1] - 224) * 4096 + (data[2] - 128) * 64
                        + (data[3] - 128)
                   ELSE (data[1] - 240) * 262144 + (data[2] - 128) * 4096
                        + (data[3] - 128) * 64 + (data[4] - 128)
         IN <<cp>> \o decode_utf8(SubSeq(data, n + 1, Len(data)))

\* iterations = 1003 if version == b"v10" else 1 (encrypt_for_safe_storage)
FixtureIterations(version) == IF version = TagV10 THEN 1003 ELSE 1

\* plaintext_bytes + bytes([padding_len] * padding_len)
Pad(data) ==
    LET padding_len == BlockSize - (Len(data) % BlockSize)
    IN data \o [i \in 1..padding_len |-> padding_len]

\* encrypt_for_safe_storage of the tests: the envelope, as hex text
encrypt_for_safe_storage(plaintext, password, version) ==
    Hex(version \o CBCEncrypt(derive(password, FixtureIterations(version)), IV,
                              Pad(encode_utf8(plaintext))))

\* the envelope that holds the blocks `data` as they are, without padding:
\* what any writer other than safeStorage can put into config.json
Seal(data, password, version) ==
    Hex(version \o CBCEncrypt(derive(password, FixtureIterations(version)), IV,
                              data))

\* the version header read with one iteration count for both tags
Iterations_SameForBoth(encrypted_data) ==
    IF SubSeq(encrypted_data, 1, Min(3, Len(encrypted_data))) = TagV10 THEN 1003
    ELSE IF SubSeq(encrypted_data, 1, Min(3, Len(encrypted_data))) = TagV11
    THEN 1003
    ELSE 0

\* the version header read as the fixture reads it: what is not v10 is v11
Iterations_ElseOne(encrypted_data) ==
    IF SubSeq(encrypted_data, 1, Min(3, Len(encrypted_data))) = TagV10 THEN 1003
    ELSE 1

\* the iteration count the version header selects: 1003 for v10, 1 for
\* v11; 0 stands for the branch that raises
Iterations(encrypted_data) ==
    IF SubSeq(encrypted_data, 1, Min(3, Len(encrypted_data))) = TagV10 THEN 1003
    ELSE IF SubSeq(encrypted_data, 1, Min(3, Len(encrypted_data))) = TagV11
    THEN 1
    ELSE 0

\* decrypted[:-padding_len] with padding_len = decrypted[-1], on data that
\* is not empty: a slice, so no length is out of range, and -0 is 0
Unpad(decrypted) ==
    LET padding_len == decrypted[Len(decrypted)]
    IN IF padding_len = 0 \/ padding_len >= Len(decrypted) THEN <<>>
       ELSE SubSeq(decrypted, 1, Len(decrypted) - padding_len)

\* the outcome of a call of the codec: what it returned or raised, whether
\* kdf.derive ran, and the data the decryptor produced
CodecResult(out, derived, decrypted) ==
    [out |-> out, derived |-> derived, decrypted |-> decrypted]

\* SignalDesktopImporter._decrypt_safe_storage on hex text and a password
DecryptSafeStorage(encrypted_hex, password) ==
    IF ~FromHexOk(encrypted_hex)
    THEN CodecResult([kind |-> "raise", key |-> <<>>, exc |-> "ValueError"],
                     FALSE, <<>>)
    ELSE LET encrypted_data == FromHex(encrypted_hex)
             iterations == Iterations(encrypted_data)
             derived_key == derive(password, iterations)
             ciphertext == SubSeq(encrypted_data, 4, Len(encrypted_data))
             decrypted == CBCDecrypt(derived_key, IV, ciphertext)
         IN IF iterations = 0
            THEN CodecResult([kind |-> "raise", key |-> <<>>,
                              exc |-> "DesktopImportError"], FALSE, <<>>)
            ELSE IF Len(ciphertext) % BlockSize # 0
            THEN CodecResult([kind |-> "raise", key |-> <<>>,
                              exc |-> "ValueError"], TRUE, <<>>)
            ELSE IF decrypted = <<>>
            THEN CodecResult([kind |-> "raise", key |-> <<>>,
                              exc |-> "IndexError"], TRUE, <<>>)
            ELSE IF ~DecodeUtf8Ok(Unpad(decrypted))
            THEN CodecResult([kind |-> "raise", key |-> <<>>,
                              exc |-> "UnicodeDecodeError"], TRUE, decrypted)
            ELSE CodecResult([kind |-> "return",
                              key |-> decode_utf8(Unpad(decrypted)),
                              exc |-> ""], TRUE, decrypted)

\* n copies of one code point or byte
Fill(n, x) == [i \in 1..n |-> x]

\* plaintexts: of no, one and several bytes, of one byte less and one more
\* than whole blocks, of whole blocks, with characters of two and three
\* bytes, and of the character U+0010, whose byte is a padding byte
Plaintexts ==
    {Fill(n, 97) : n \in {0, 1, MaxBlocks * BlockSize}}
    \cup {Fill(k * BlockSize + d, 97) : k \in 1..(MaxBlocks - 1), d \in {-1, 0, 1}}
    \cup {Fill(n, 16) : n \in {1, BlockSize}}
    \cup {<<233>>, Fill(8, 233), Fill(BlockSize - 1, 97) \o <<233>>, <<8364>>}

\* passwords: b"pw", b"p" and b""
Passwords == {<<112, 119>>, <<112>>, <<>>}

Versions == {TagV10, TagV11}

\* one block of data that no padding produced: its last byte is 0, above
\* the block length, or a length that the bytes before it do not repeat;
\* and, next to them, a block with a padding of two bytes
RawData ==
    {Fill(BlockSize - 1, 97) \o <<b>> : b \in {0, 17, 200}}
    \cup {Fill(BlockSize - 2, 97) \o <<5, 2>>, Fill(BlockSize - 2, 97) \o <<2, 2>>}

\* headers that are neither b"v10" nor b"v11": b"", b"v", b"v1", b"v99",
\* b"V10", b"v12", b"10v"
OtherTags ==
    {<<>>, <<118>>, <<118, 49>>, TagV99, <<86, 49, 48>>, <<118, 49, 50>>,
     <<49, 48, 118>>}

\* envelopes with such a header, followed by nothing, by a block, or by less
\* than a block
OtherEnvelopes ==
    {tag \o body : tag \in OtherTags,
                   body \in {<<>>, Fill(BlockSize, 0), Fill(5, 7)}}
    \ {TagV10, TagV11}

----------------------------------------------------------------------------
(* The database of Signal Desktop and its conversion.                      *)

\* SignalDesktopImporter.our_phone_number
OurPhoneNumber == "+0"

\* a source column that is NULL or empty (`or` takes both as missing)
NoSource == ""

\* the values of datetime.now() during an import, in microseconds
ClockTimes == {Now, Now + 1000}

\* (sent_at, received_at) of a row of the foreign table messages, in
\* milliseconds; None is NULL
ForeignTimes == {<<1, 1>>, <<2, 2>>, <<None, 2>>, <<None, None>>}

\* rows of the foreign table messages
ForeignRows ==
    {[source |-> "+1", type |-> "incoming", body |-> ShortBody,
      sent_at |-> t[1], received_at |-> t[2]] : t \in ForeignTimes}
    \cup {[source |-> NoSource, type |-> "outgoing", body |-> ShortBody,
           sent_at |-> 1, received_at |-> 1]}

\* what get_messages_for_conversation returns: the rows of a conversation,
\* ORDER BY sent_at ASC (NULL sorts first)
RowLists ==
    UNION {{s \in [1..n -> ForeignRows] :
              \A i, j \in 1..n : i < j => s[i].sent_at <= s[j].sent_at} :
           n \in 0..MaxBatch}

\* what get_conversations and get_messages_for_conversation return for the
\* foreign databases of the model: a private and a group conversation
Datasets ==
    {<<[id |-> "+1", name |-> "Al", is_group |-> FALSE, rows |-> r[1]],
       [id |-> "g1", name |-> "g1", is_group |-> TRUE, rows |-> r[2]]>> :
       r \in {q \in RowLists \X RowLists : Len(q[1]) + Len(q[2]) <= MaxRows}}

\* msg_data["sent_at"] or msg_data["received_at"] or 0
timestamp_ms(row) ==
    IF row.sent_at # None /\ row.sent_at # 0 THEN row.sent_at
    ELSE IF row.received_at # None /\ row.received_at # 0 THEN row.received_at
    ELSE 0

\* the Message import_all builds from a foreign row; now is the value of
\* datetime.now() if the row makes import_all read the clock
ToMessage(row, now) ==
    LET is_outgoing == row.type = "outgoing"
    IN [sender |-> IF row.source # NoSource THEN row.source
                   ELSE IF is_outgoing THEN OurPhoneNumber ELSE "",
        sender_name |-> IF is_outgoing THEN "You" ELSE "",
        body |-> row.body,
        timestamp |-> IF timestamp_ms(row) # 0
                      THEN timestamp_ms(row) * 1000 ELSE now,
        is_outgoing |-> is_outgoing,
        is_read |-> TRUE]

\* messages_to_insert after the first n rows of conversation conv, with the
\* clock after them: every run of the conversion loop from time `clock`
RECURSIVE ConvertRows(_, _, _)
ConvertRows(conv, n, clock) ==
    IF n = 0 THEN {[batch |-> <<>>, clock |-> clock]}
    ELSE LET row == conv.rows[n]
         IN UNION {
              IF timestamp_ms(row) # 0
              THEN {[batch |-> Append(prev.batch, <<conv.id, ToMessage(row, 0)>>),
                     clock |-> prev.clock]}
              ELSE {[batch |-> Append(prev.batch, <<conv.id, ToMessage(row, now)>>),
                     clock |-> now] : now \in {t \in ClockTimes : t >= prev.clock}} :
              prev \in ConvertRows(conv, n - 1, clock)}

\* the foreign rows of conv whose time is known all have their row in table
\* messages
RowsStored(msgs, conv) ==
    \A k \in 1..Len(conv.rows) :
       timestamp_ms(conv.rows[k]) # 0 =>
          DedupKey(BulkRow(conv.id, ToMessage(conv.rows[k], 0))) \in StoredKeys(msgs)

----------------------------------------------------------------------------
(* Key acquisition of the importer.  A call either returns a key, returns  *)
(* None, or raises; `accesses` counts the runs of `security`.              *)

Return(key) == [kind |-> "return", key |-> key, exc |-> ""]

Raise(exc) == [kind |-> "raise", key |-> <<>>, exc |-> exc]

ReturnNone == [kind |-> "none", key |-> <<>>, exc |-> ""]

\* the key of the database of Signal Desktop, as hex text
DbKey == <<"a", "b">>

\* the password of safeStorage in the credential store
SafePassword == <<"p", "w">>

\* text that a decryption with a wrong password can yield
GarbageKey == <<"?">>

\* the values of "key" in config.json: none (absent or empty), the key in
\* lower and in upper case, and a text that is not hex
PlainKeys == {<<>>, DbKey, <<"A", "B">>, <<"g", "1">>}

\* the values of "encryptedKey" in config.json, by what
\* _decrypt_safe_storage meets: none (absent or empty), text that is not
\* hex, an unknown version header, and the key encrypted under SafePassword
\* with header v10
EncryptedKeys ==
    {[form |-> f, plain |-> IF f = "v10" THEN DbKey ELSE <<>>,
      password |-> IF f = "v10" THEN SafePassword ELSE <<>>] :
       f \in {"none", "nothex", "version", "v10"}}

\* config.json
Configs ==
    {[file |-> f, key |-> <<>>, encryptedKey |-> [form |-> "none", plain |-> <<>>, password |-> <<>>]] :
       f \in {"absent", "unreadable", "malformed"}}
    \cup [file : {"json"}, key : PlainKeys, encryptedKey : EncryptedKeys]

\* what `security find-generic-password -w` does for the entry of Signal
\* Desktop: prints the stored text (the base64 of the key, or the
\* safeStorage password), finds no entry, or does not end in time
Keychains ==
    {[status |-> "ok", stdout |-> b64encode(FromHex(DbKey)) \o <<"\n">>],
     [status |-> "ok", stdout |-> SafePassword \o <<"\n">>],
     [status |-> "notfound", stdout |-> <<>>],
     [status |-> "timeout", stdout |-> <<>>]}

\* SignalDesktopImporter._decrypt_safe_storage: every outcome
_decrypt_safe_storage(enc, password) ==
    IF enc.form = "nothex" THEN {Raise("ValueError")}
    ELSE IF enc.form = "version" THEN {Raise("DesktopImportError")}
    ELSE IF password = enc.password THEN {Return(enc.plain)}
    ELSE {Raise("UnicodeDecodeError"), Return(GarbageKey), Return(<<>>)}

\* SignalDesktopImporter._get_keychain_password
_get_keychain_password(kc) ==
    IF kc.status = "ok" THEN Return(Strip(kc.stdout))
    ELSE Raise("DesktopImportError")

\* SignalDesktopImporter.get_key_from_keychain
get_key_from_keychain(kc) ==
    IF kc.status = "ok" /\ B64DecodeOk(Strip(kc.stdout))
    THEN Return(Hex(b64decode(Strip(kc.stdout))))
    ELSE Raise("DesktopImportError")

\* get_key_from_config that tries encryptedKey before key
get_key_from_config_EncryptedFirst(cfg, kc) ==
    IF cfg.file = "absent" THEN {[out |-> ReturnNone, accesses |-> 0]}
    ELSE IF cfg.file # "json"
    THEN {[out |-> Raise("DesktopImportError"), accesses |-> 0]}
    ELSE IF cfg.encryptedKey.form # "none"
    THEN IF _get_keychain_password(kc).kind = "raise"
         THEN {[out |-> _get_keychain_password(kc), accesses |-> 1]}
         ELSE {[out |-> o, accesses |-> 1] :
                 o \in _decrypt_safe_storage(cfg.encryptedKey,
                                             _get_keychain_password(kc).key)}
    ELSE IF cfg.key # <<>> /\ IsHex(cfg.key)
    THEN {[out |-> Return(cfg.key), accesses |-> 0]}
    ELSE {[out |-> ReturnNone, accesses |-> 0]}

\* SignalDesktopImporter.get_key_from_config: every outcome, with the
\* number of runs of `security`
get_key_from_config(cfg, kc) ==
    IF cfg.file = "absent" THEN {[out |-> ReturnNone, accesses |-> 0]}
    ELSE IF cfg.file # "json"
    THEN {[out |-> Raise("DesktopImportError"), accesses |-> 0]}
    ELSE IF cfg.key # <<>> /\ IsHex(cfg.key)
    THEN {[out |-> Return(cfg.key), accesses |-> 0]}
    ELSE IF cfg.encryptedKey.form # "none"
    THEN IF _get_keychain_password(kc).kind = "raise"
         THEN {[out |-> _get_keychain_password(kc), accesses |-> 1]}
         ELSE {[out |-> o, accesses |-> 1] :
                 o \in _decrypt_safe_storage(cfg.encryptedKey,
                                             _get_keychain_password(kc).key)}
    ELSE {[out |-> ReturnNone, accesses |-> 0]}

\* SignalDesktopImporter.get_encryption_key: every outcome
get_encryption_key(cfg, kc) ==
    {IF r.out.kind = "raise" \/ (r.out.kind = "return" /\ r.out.key # <<>>)
     THEN r
     ELSE [out |-> get_key_from_keychain(kc), accesses |-> r.accesses + 1] :
       r \in get_key_from_config(cfg, kc)}

\* PRAGMA key with this hex text opens the database (hex of either case)
KeyOpens(key, dbKey) ==
    FromHexOk(key) /\ key # <<>> /\ FromHex(key) = FromHex(dbKey)

\* what the importer can find on the machine
Desktops ==
    [installed : BOOLEAN, config : Configs, keychain : Keychains,
     dbKey : {DbKey}]

\* Signal Desktop installed, with its key in plain text in config.json
PlainDesktop ==
    [installed |-> TRUE,
     config |-> [file |-> "json", key |-> DbKey,
                 encryptedKey |-> [form |-> "none", plain |-> <<>>, password |-> <<>>]],
     keychain |-> [status |-> "notfound", stdout |-> <<>>],
     dbKey |-> DbKey]

\* SignalDesktopImporter.__init__
NotConnected ==
    [_key |-> <<>>, hasKey |-> FALSE, _conn |-> FALSE, keyed |-> FALSE,
     accesses |-> 0, op |-> "none", out |-> ReturnNone]

\* connect that acquires the key before it looks for the database file
connect_KeyFirst(d, se) ==
    LET keys == IF se.hasKey THEN {[out |-> Return(se._key), accesses |-> 0]}
                ELSE get_encryption_key(d.config, d.keychain)
    IN {IF k.out.kind = "raise" \/ ~d.installed
        THEN [se EXCEPT !.accesses = @ + k.accesses,
                        !.out = Raise("DesktopImportError")]
        ELSE [se EXCEPT !._key = k.out.key, !.hasKey = TRUE, !._conn = TRUE,
                        !.keyed = KeyOpens(k.out.key, d.dbKey),
                        !.accesses = @ + k.accesses,
                        !.out = IF KeyOpens(k.out.key, d.dbKey) THEN ReturnNone
                                ELSE Raise("DesktopImportError")] :
          k \in keys}

\* SignalDesktopImporter.connect: the importer object after every outcome
connect(d, se) ==
    IF ~d.installed THEN {[se EXCEPT !.out = Raise("DesktopImportError")]}
    ELSE LET keys == IF se.hasKey
                     THEN {[out |-> Return(se._key), accesses |-> 0]}
                     ELSE get_encryption_key(d.config, d.keychain)
         IN {IF k.out.kind = "raise"
             THEN [se EXCEPT !.accesses = @ + k.accesses,
                             !.out = Raise("DesktopImportError")]
             ELSE [se EXCEPT !._key = k.out.key, !.hasKey = TRUE, !._conn = TRUE,
                             !.keyed = KeyOpens(k.out.key, d.dbKey),
                             !.accesses = @ + k.accesses,
                             !.out = IF KeyOpens(k.out.key, d.dbKey) THEN ReturnNone
                                     ELSE Raise("DesktopImportError")] :
               k \in keys}

----------------------------------------------------------------------------
(* The key of the store (module functions of message_store.py).  An entry  *)
(* of the credential store holds the text given to                         *)
(* `security add-generic-password -w`; find-generic-password -w prints it  *)
(* followed by a newline.                                                  *)

\* the bytes of the keys of the model
KeyByteValues == {0, 171, 255}

\* _generate_encryption_key: the hex text of random bytes (32 in the code,
\* up to MaxKeyLen here)
GeneratedKeys ==
    {Hex(bytes) : bytes \in UNION {[1..n -> KeyByteValues] : n \in 1..MaxKeyLen}}

NoEntry == [present |-> FALSE, text |-> <<>>]

\* the entries under "Signal TUI Safe Storage" / "Signal TUI Key"
Entries ==
    {NoEntry} \cup {[present |-> TRUE, text |-> b64encode(FromHex(k))] :
                      k \in GeneratedKeys}

\* no call of get_or_create_encryption_key has been made
NoVaultCall(entry) ==
    [entry |-> entry, op |-> "none", out |-> ReturnNone, generated |-> <<>>]

\* _get_key_from_keychain: every result; the empty text is None.  With an
\* entry, `security` prints its text; with or without one it can end with
\* a non-zero return code or not end within 10 seconds, and both, like
\* every exception, give None
_get_key_from_keychain(entry) ==
    {<<>>} \cup
    (IF entry.present /\ B64DecodeOk(Strip(entry.text \o <<"\n">>))
     THEN {Hex(b64decode(Strip(entry.text \o <<"\n">>)))}
     ELSE {})

\* _store_key_in_keychain: every result with the entry it leaves.  The
\* delete can remove the entry or fail; the add (-U) can write the entry,
\* fail, or time out after or before it wrote; a timeout of either gives
\* False
_store_key_in_keychain(entry, key_hex) ==
    IF ~FromHexOk(key_hex) THEN {[ok |-> FALSE, entry |-> entry]}
    ELSE LET new == [present |-> TRUE, text |-> b64encode(FromHex(key_hex))]
         IN {[ok |-> TRUE, entry |-> new], [ok |-> FALSE, entry |-> new],
             [ok |-> FALSE, entry |-> entry], [ok |-> FALSE, entry |-> NoEntry]}

----------------------------------------------------------------------------
(* Operations.  lastOp names the operation that produced the state and     *)
(* what it returned (for save_message, the rowcount of its INSERT, or -1   *)
(* when it returned -1);                                                   *)
(* commits lists, for that operation, the content of table messages made   *)
(* durable by each conn.commit() it ran.                                   *)

\* the codec has not been used
NoCodec == [op |-> "none"]

\* no call of the store is in progress
NoCall == [op |-> "none", pc |-> "return"]

\* no instance of MessageStore has been made and no database file exists
NoStore ==
    [made |-> FALSE, _conn |-> 0, _encryption_key |-> <<>>, live |-> {},
     opens |-> 0, closes |-> 0, vaultCalls |-> 0, fileKey |-> <<>>,
     op |-> "none", out |-> ReturnNone]

\* no thread is inside a call of the store
NoThreads == <<>>

\* the store after construction
InitStore ==
    /\ messages = EmptyBag
    /\ conversations = [c \in {} |-> 0]
    /\ lastOp = [op |-> "init", ret |-> 0]
    /\ commits = <<>>

\* import_all is not running
Idle == [pc |-> "idle", i |-> 0, conv_count |-> 0, total_messages |-> 0,
         clock |-> Now]

\* a new store; no importer is used
Init ==
    /\ InitStore
    /\ foreign = <<>>
    /\ imp = Idle
    /\ progress = <<>>
    /\ results = <<>>
    /\ desktop = PlainDesktop
    /\ session = NotConnected
    /\ vault = NoVaultCall(NoEntry)
    /\ codec = NoCodec
    /\ call = NoCall
    /\ store = NoStore
    /\ threads = NoThreads

\* MessageStore.save_message
SaveMessage(c, m) ==
    LET msgs  == InsertOrIgnore(messages, SaveRow(c, m))
        convs == UpdateConversationOnMessage(conversations, c, m)
    IN /\ BagCardinality(msgs) <= MaxRows
       /\ convs[c].unreadCount <= MaxUnread
       /\ messages' = msgs
       /\ conversations' = convs
       /\ commits' = <<msgs, msgs>>
       /\ lastOp' = [op |-> "save_message",
                     ret |-> RowCount(messages, SaveRow(c, m))]

\* MessageStore.mark_messages_read
MarkMessagesRead(c) ==
    /\ messages' = MarkedRead(messages, c)
    /\ conversations' = IF c \in DOMAIN conversations
                        THEN [conversations EXCEPT ![c].unreadCount = 0]
                        ELSE conversations
    /\ commits' = <<messages', messages'>>
    /\ lastOp' = [op |-> "mark_messages_read", ret |-> 0]

\* ensure_conversation with INSERT OR REPLACE and no test for a stored row
EnsureConversation_Replace(c, name, is_group) ==
    /\ conversations' =
          InsertConversation(conversations, c,
             [name |-> name,
              type |-> IF is_group THEN "group" ELSE "private",
              lastMessage |-> <<>>,
              lastMessageAt |-> NULL,
              unreadCount |-> 0])
    /\ commits' = <<messages>>
    /\ lastOp' = [op |-> "ensure_conversation", ret |-> 0]
    /\ UNCHANGED messages

\* MessageStore.ensure_conversation
EnsureConversation(c, name, is_group) ==
    /\ conversations' =
          IF c \in DOMAIN conversations THEN conversations
          ELSE InsertConversation(conversations, c,
                  [name |-> name,
                   type |-> IF is_group THEN "group" ELSE "private",
                   lastMessage |-> <<>>,
                   lastMessageAt |-> NULL,
                   unreadCount |-> 0])
    /\ commits' = IF c \in DOMAIN conversations THEN <<>> ELSE <<messages>>
    /\ lastOp' = [op |-> "ensure_conversation", ret |-> 0]
    /\ UNCHANGED messages

\* MessageStore.update_conversation_name
UpdateConversationName(c, name) ==
    /\ conversations' = IF c \in DOMAIN conversations
                        THEN [conversations EXCEPT ![c].name = name]
                        ELSE conversations
    /\ commits' = <<messages>>
    /\ lastOp' = [op |-> "update_conversation_name", ret |-> 0]
    /\ UNCHANGED messages

\* MessageStore.update_conversation_from_messages
UpdateConversationFromMessages(c) ==
    /\ IF RowsOf(messages, c) = {}
       THEN /\ conversations' = conversations
            /\ commits' = <<>>
       ELSE /\ \E row \in NewestRows(messages, c) :
                  conversations' = AggregateFromRow(conversations, c, row)
            /\ commits' = <<messages>>
    /\ lastOp' = [op |-> "update_conversation_from_messages", ret |-> 0]
    /\ UNCHANGED messages

\* MessageStore.bulk_insert_messages
BulkInsertMessages(batch) ==
    LET done == BulkLoop(messages, batch, Len(batch))
        pts  == BulkCommitPoints(batch)
    IN /\ BagCardinality(done.msgs) <= MaxRows
       /\ messages' = done.msgs
       /\ commits' = [k \in 1..Len(pts) |-> BulkLoop(messages, batch, pts[k]).msgs]
       /\ lastOp' = [op |-> "bulk_insert_messages", ret |-> done.inserted]
       /\ UNCHANGED conversations

\* pairs (conversation_id, Message) for bulk_insert_messages: incoming
\* messages of conversation c flagged unread, which it stores as read;
\* sender_name is not stored by the INSERT, so one value stands for all
BulkPairs(c, B) ==
    {c} \X {m \in MessagesOver(B) :
               ~m.is_read /\ ~m.is_outgoing /\ m.sender_name = ""}

\* the batches handed to bulk_insert_messages: lists of pairs of one
\* conversation, as its caller import_all builds them
Batches(C, B) ==
    UNION {[1..n -> BulkPairs(c, B)] : n \in 0..MaxBatch, c \in C}

\* every sequence of operations on conversation ids C with bodies B
NextOver(C, B) ==
    \/ \E c \in C, m \in MessagesOver(B) :
          SaveMessage(c, m) /\ UNCHANGED importer
    \/ \E c \in C : MarkMessagesRead(c) /\ UNCHANGED importer
    \/ \E c \in C, name \in Names :
          EnsureConversation(c, name, ~StartsWithPlus(c)) /\ UNCHANGED importer
    \/ \E c \in C, name \in Names :
          UpdateConversationName(c, name) /\ UNCHANGED importer
    \/ \E c \in C : UpdateConversationFromMessages(c) /\ UNCHANGED importer
    \/ \E batch \in Batches(C, B) :
          BulkInsertMessages(batch) /\ UNCHANGED importer

\* two conversations, one body
Next == NextOver(ConvIds, {ShortBody})

Spec == Init /\ [][Next]_vars

\* one conversation, bodies that differ: messages with equal sent_at and
\* different previews
NextTies == NextOver({"+1"}, Bodies)

SpecTies == Init /\ [][NextTies]_vars

\* one conversation, a body with no text and a body longer than a preview
NextPreview == NextOver({"+1"}, {EmptyBody, LongBody})

SpecPreview == Init /\ [][NextPreview]_vars

\* save_message of an incoming, unread message that is not stored yet and is
\* not older than the messages stored for its conversation
SaveNewUnread(c, m) ==
    /\ ~m.is_outgoing
    /\ ~m.is_read
    /\ DedupKey(SaveRow(c, m)) \notin StoredKeys(messages)
    /\ \A i \in RowsOf(messages, c) : i[1].sent_at <= SentAtOf(m.timestamp)
    /\ SaveMessage(c, m)

\* conversations that receive distinct unread incoming messages in
\* non-decreasing time order and are marked read
NextUnread ==
    \/ \E c \in ConvIds, m \in MessagesOver(Bodies) :
          SaveNewUnread(c, m) /\ UNCHANGED importer
    \/ \E c \in ConvIds : MarkMessagesRead(c) /\ UNCHANGED importer
    \/ \E c \in ConvIds, name \in Names :
          EnsureConversation(c, name, ~StartsWithPlus(c)) /\ UNCHANGED importer

SpecUnread == Init /\ [][NextUnread]_vars

\* the live message path alone: save_message of every kind of message, in
\* any order of their times, to conversations that do not exist, that
\* ensure_conversation made (lastMessageAt NULL) or that hold messages
NextSave ==
    \/ \E c \in ConvIds, m \in MessagesOver({ShortBody}) :
          SaveMessage(c, m) /\ UNCHANGED importer
    \/ \E c \in ConvIds, name \in Names :
          EnsureConversation(c, name, ~StartsWithPlus(c)) /\ UNCHANGED importer

SpecSave == Init /\ [][NextSave]_vars

\* pairs (conversation_id, Message) of conversation c with every direction
\* and every read flag
BulkPairsAnyFlag(c, B) ==
    {c} \X {m \in MessagesOver(B) : m.sender_name = ""}

BatchesAnyFlag(C, B) ==
    UNION {[1..n -> BulkPairsAnyFlag(c, B)] : n \in 0..MaxBatch, c \in C}

\* the live message path of one conversation and batches of messages of
\* every kind for it
NextBulk ==
    \/ \E m \in MessagesOver({ShortBody}) :
          SaveMessage("+1", m) /\ UNCHANGED importer
    \/ MarkMessagesRead("+1") /\ UNCHANGED importer
    \/ \E batch \in BatchesAnyFlag({"+1"}, {ShortBody}) :
          BulkInsertMessages(batch) /\ UNCHANGED importer

SpecBulk == Init /\ [][NextBulk]_vars

----------------------------------------------------------------------------
(* import_all.                                                             *)

\* the conversation the loop of import_all is at (enumerate counts from 0)
conv == foreign[imp.i + 1]

\* a direct call of get_encryption_key
GetEncryptionKey ==
    /\ imp.pc = "idle"
    /\ session.accesses < MaxAccesses
    /\ \E k \in get_encryption_key(desktop.config, desktop.keychain) :
          session' = [session EXCEPT !.op = "get_encryption_key",
                                     !.out = k.out,
                                     !.accesses = @ + k.accesses]
    /\ UNCHANGED <<messages, conversations, lastOp, commits,
                   foreign, imp, progress, results, desktop, vault, codec, call,
                   store, threads>>

\* connect that writes the key it acquired back to config.json
Connect_CacheKey ==
    /\ imp.pc = "idle"
    /\ session.accesses < MaxAccesses
    /\ \E se \in connect(desktop, session) :
          /\ session' = [se EXCEPT !.op = "connect"]
          /\ desktop' = IF se.hasKey
                        THEN [desktop EXCEPT !.config.file = "json",
                                             !.config.key = se._key]
                        ELSE desktop
    /\ UNCHANGED <<messages, conversations, lastOp, commits,
                   foreign, imp, progress, results, vault, codec, call,
                   store, threads>>

\* a direct call of connect
Connect ==
    /\ imp.pc = "idle"
    /\ session.accesses < MaxAccesses
    /\ \E se \in connect(desktop, session) :
          session' = [se EXCEPT !.op = "connect"]
    /\ UNCHANGED <<messages, conversations, lastOp, commits,
                   foreign, imp, progress, results, desktop, vault, codec, call,
                   store, threads>>

\* import_all up to its loop: connect unless _conn is set,
\* get_conversations (which fails on a connection without the right key),
\* and the counters; an exception ends the call
ImportAllBegin ==
    /\ imp.pc = "idle"
    /\ Len(results) < 2
    /\ session.accesses < MaxAccesses
    /\ \E se \in (IF session._conn THEN {[session EXCEPT !.out = ReturnNone]}
                   ELSE connect(desktop, session)) :
          IF se.out.kind = "raise"
          THEN /\ session' = [se EXCEPT !.op = "import_all"]
               /\ UNCHANGED <<imp, progress>>
          ELSE IF ~se.keyed
          THEN /\ session' = [se EXCEPT !.op = "import_all",
                                       !.out = Raise("DatabaseError")]
               /\ UNCHANGED <<imp, progress>>
          ELSE /\ session' = [se EXCEPT !.op = "import_all"]
               /\ imp' = [imp EXCEPT !.pc = "loop", !.i = 0, !.conv_count = 0,
                                     !.total_messages = 0]
               /\ progress' = <<>>
    /\ UNCHANGED <<messages, conversations, lastOp, commits,
                   foreign, results, desktop, vault, codec, call,
                   store, threads>>

\* the head of the loop body: progress_callback(conv["name"], i + 1, total)
ImportProgress ==
    /\ imp.pc = "loop"
    /\ imp.i < Len(foreign)
    /\ progress' = Append(progress,
                      [name |-> conv.name, index |-> imp.i + 1,
                       total |-> Len(foreign),
                       stored |-> RowsStored(messages, conv),
                       aggregated |-> Aggregated(messages, conversations, conv.id)])
    /\ imp' = [imp EXCEPT !.pc = "messages"]
    /\ UNCHANGED <<messages, conversations, lastOp, commits, foreign, results,
                   desktop, session, vault, codec, call,
                   store, threads>>

\* the conversion of the conversation's rows and bulk_insert_messages
ImportBulkInsert ==
    /\ imp.pc = "messages"
    /\ conv.rows # <<>>
    /\ \E cv \in ConvertRows(conv, Len(conv.rows), imp.clock) :
          /\ BulkInsertMessages(cv.batch)
          /\ imp' = [imp EXCEPT
                       !.pc = "ensure",
                       !.clock = cv.clock,
                       !.total_messages =
                          @ + BulkLoop(messages, cv.batch, Len(cv.batch)).inserted]
    /\ UNCHANGED <<foreign, progress, results, desktop, session, vault,
                   codec, call,
                   store, threads>>

\* a conversation without messages: no store call, conv_count += 1
ImportNoMessages ==
    /\ imp.pc = "messages"
    /\ conv.rows = <<>>
    /\ imp' = [imp EXCEPT !.pc = "loop", !.i = @ + 1, !.conv_count = @ + 1]
    /\ UNCHANGED <<messages, conversations, lastOp, commits,
                   foreign, progress, results, desktop, session, vault, codec, call,
                   store, threads>>

\* import_all with a call that replaces the conversation row
ImportEnsureConversation_Overwrite ==
    /\ imp.pc = "ensure"
    /\ EnsureConversation_Replace(conv.id, conv.name, conv.is_group)
    /\ imp' = [imp EXCEPT !.pc = "aggregate"]
    /\ UNCHANGED <<foreign, progress, results, desktop, session, vault,
                   codec, call,
                   store, threads>>

\* ensure_conversation(conv["id"], conv["name"], conv["is_group"])
ImportEnsureConversation ==
    /\ imp.pc = "ensure"
    /\ EnsureConversation(conv.id, conv.name, conv.is_group)
    /\ imp' = [imp EXCEPT !.pc = "aggregate"]
    /\ UNCHANGED <<foreign, progress, results, desktop, session, vault,
                   codec, call,
                   store, threads>>

\* update_conversation_from_messages(conv["id"]) and conv_count += 1
ImportAggregate ==
    /\ imp.pc = "aggregate"
    /\ UpdateConversationFromMessages(conv.id)
    /\ imp' = [imp EXCEPT !.pc = "loop", !.i = @ + 1, !.conv_count = @ + 1]
    /\ UNCHANGED <<foreign, progress, results, desktop, session, vault,
                   codec, call,
                   store, threads>>

\* return conv_count, total_messages
ImportAllReturn ==
    /\ imp.pc = "loop"
    /\ imp.i = Len(foreign)
    /\ results' = Append(results,
                     [conv_count |-> imp.conv_count,
                      total_messages |-> imp.total_messages,
                      message_count |-> get_message_count(messages),
                      conversation_count |-> Cardinality(DOMAIN conversations)])
    /\ imp' = [imp EXCEPT !.pc = "idle"]
    /\ UNCHANGED <<messages, conversations, lastOp, commits, foreign, progress,
                   desktop, session, vault, codec, call,
                   store, threads>>

\* a store the live message path has used, and a foreign database
InitImport ==
    /\ InitStore
    /\ foreign \in Datasets
    /\ imp = Idle
    /\ progress = <<>>
    /\ results = <<>>
    /\ desktop = PlainDesktop
    /\ session = NotConnected
    /\ vault = NoVaultCall(NoEntry)
    /\ codec = NoCodec
    /\ call = NoCall
    /\ store = NoStore
    /\ threads = NoThreads

\* the live message path of conversation "+1" before the first import, then
\* import_all, run up to twice
NextImport ==
    \/ /\ imp.pc = "idle"
       /\ results = <<>>
       /\ \E m \in {q \in MessagesOver({ShortBody}) :
                      ~q.is_outgoing /\ q.sender_name = ""} : SaveMessage("+1", m)
       /\ UNCHANGED importer
    \/ /\ imp.pc = "idle"
       /\ results = <<>>
       /\ EnsureConversation("+1", "Bo", FALSE)
       /\ UNCHANGED importer
    \/ ImportAllBegin
    \/ ImportProgress
    \/ ImportBulkInsert
    \/ ImportNoMessages
    \/ ImportEnsureConversation
    \/ ImportAggregate
    \/ ImportAllReturn

SpecImport == InitImport /\ [][NextImport]_vars

\* the process ends inside import_all.  Every store call of import_all ends
\* with its conn.commit(), and a batch that has not reached the commit of
\* bulk_insert_messages is rolled back, so the tables stay as they are
ImportCrash ==
    /\ imp.pc \notin {"idle", "crashed"}
    /\ imp' = [imp EXCEPT !.pc = "crashed"]
    /\ UNCHANGED <<messages, conversations, lastOp, commits, foreign, progress,
                   results, desktop, session, vault, codec, call,
                   store, threads>>

NextImportCrash == NextImport \/ ImportCrash

SpecImportCrash == InitImport /\ [][NextImportCrash]_vars

\* the live message path of conversation "+1" and import_all, with
\* mark_messages_read and update_conversation_name between the runs of
\* import_all as well: every operation that writes to the two tables
NextLifecycle ==
    \/ NextImport
    \/ /\ imp.pc = "idle"
       /\ MarkMessagesRead("+1")
       /\ UNCHANGED importer
    \/ /\ imp.pc = "idle"
       /\ UpdateConversationName("+1", "Bo")
       /\ UNCHANGED importer
    \/ /\ imp.pc = "idle"
       /\ UpdateConversationFromMessages("+1")
       /\ UNCHANGED importer

SpecLifecycle == InitImport /\ [][NextLifecycle]_vars

\* a new store, a foreign database with one message, and any state of
\* config.json and of the credential store
InitKey ==
    /\ InitStore
    /\ foreign \in {ds \in Datasets :
                       /\ ds[2].rows = <<>>
                       /\ Len(ds[1].rows) = 1
                       /\ ds[1].rows[1].type = "incoming"
                       /\ ds[1].rows[1].sent_at = 1}
    /\ imp = Idle
    /\ progress = <<>>
    /\ results = <<>>
    /\ desktop \in Desktops
    /\ session = NotConnected
    /\ vault = NoVaultCall(NoEntry)
    /\ codec = NoCodec
    /\ call = NoCall
    /\ store = NoStore
    /\ threads = NoThreads

\* the public calls of the importer that need the key
NextKey ==
    \/ GetEncryptionKey
    \/ Connect
    \/ ImportAllBegin
    \/ ImportProgress
    \/ ImportBulkInsert
    \/ ImportNoMessages
    \/ ImportEnsureConversation
    \/ ImportAggregate
    \/ ImportAllReturn

SpecKey == InitKey /\ [][NextKey]_vars

----------------------------------------------------------------------------
(* import_from_desktop: a new importer, import_all inside try, disconnect  *)
(* in finally.  call is the frame of import_from_desktop while it runs.    *)

\* SignalDesktopImporter.disconnect: the importer object afterwards
disconnect(se) ==
    IF se._conn THEN [se EXCEPT !._conn = FALSE, !.keyed = FALSE] ELSE se

\* import_from_desktop up to its try: SignalDesktopImporter(...)
ImportFromDesktopBegin ==
    /\ call = NoCall
    /\ imp.pc = "idle"
    /\ Len(results) < 2
    /\ session.accesses < MaxAccesses
    /\ call' = [op |-> "import_from_desktop", pc |-> "try"]
    /\ session' = [NotConnected EXCEPT !.accesses = session.accesses]
    /\ UNCHANGED <<messages, conversations, lastOp, commits, foreign, imp,
                   progress, results, desktop, vault, codec, store, threads>>

\* the call importer.import_all(progress_callback) of line 531
ImportFromDesktopImportAll ==
    /\ call.op = "import_from_desktop"
    /\ session.op = "none"
    /\ ImportAllBegin

\* an exception leaves the loop of import_all: progress_callback raised, or
\* a call of the foreign database or of the store did
ImportAllRaise ==
    /\ imp.pc \notin {"idle", "crashed"}
    /\ imp' = [imp EXCEPT !.pc = "idle"]
    /\ session' = [session EXCEPT !.out = Raise("Exception")]
    /\ UNCHANGED <<messages, conversations, lastOp, commits, foreign, progress,
                   results, desktop, vault, codec, call, store, threads>>

\* import_from_desktop with disconnect after import_all and no finally
ImportFromDesktopExit_NoFinally ==
    /\ call.op = "import_from_desktop"
    /\ imp.pc = "idle"
    /\ session.op = "import_all"
    /\ session' = [(IF session.out.kind = "raise" THEN session
                    ELSE disconnect(session))
                   EXCEPT !.op = "import_from_desktop"]
    /\ call' = NoCall
    /\ UNCHANGED <<messages, conversations, lastOp, commits, foreign, imp,
                   progress, results, desktop, vault, codec, store, threads>>

\* import_all returned or raised: the finally clause runs disconnect and
\* import_from_desktop returns or lets the exception through
ImportFromDesktopExit ==
    /\ call.op = "import_from_desktop"
    /\ imp.pc = "idle"
    /\ session.op = "import_all"
    /\ session' = [disconnect(session) EXCEPT !.op = "import_from_desktop"]
    /\ call' = NoCall
    /\ UNCHANGED <<messages, conversations, lastOp, commits, foreign, imp,
                   progress, results, desktop, vault, codec, store, threads>>

\* import_from_desktop, called up to twice, on any state of config.json and
\* of the credential store
NextDesktop ==
    \/ ImportFromDesktopBegin
    \/ ImportFromDesktopImportAll
    \/ ImportProgress
    \/ ImportBulkInsert
    \/ ImportNoMessages
    \/ ImportEnsureConversation
    \/ ImportAggregate
    \/ ImportAllReturn
    \/ ImportAllRaise
    \/ ImportFromDesktopExit

SpecDesktop == InitKey /\ [][NextDesktop]_vars

----------------------------------------------------------------------------
(* get_or_create_encryption_key.                                           *)

\* get_or_create_encryption_key: every result, with the entry it leaves and
\* the key it generated
get_or_create_encryption_key(entry) ==
    UNION {IF key # <<>>
           THEN {[entry |-> entry, out |-> Return(key), generated |-> <<>>]}
           ELSE UNION {{[entry |-> st.entry,
                         out |-> IF st.ok THEN Return(new)
                                 ELSE Raise("KeychainError"),
                         generated |-> new] :
                           st \in _store_key_in_keychain(entry, new)} :
                       new \in GeneratedKeys} :
           key \in _get_key_from_keychain(entry)}

\* the credential store and the record of the call after result r
VaultAfter(r) ==
    [entry |-> r.entry, op |-> "get_or_create_encryption_key",
     out |-> r.out, generated |-> r.generated]

\* a call of get_or_create_encryption_key
GetOrCreateEncryptionKey ==
    /\ \E r \in get_or_create_encryption_key(vault.entry) :
          vault' = VaultAfter(r)
    /\ UNCHANGED <<messages, conversations, lastOp, commits,
                   foreign, imp, progress, results, desktop, session, codec, call,
                   store, threads>>

\* a credential store with or without an entry of the store
InitVault ==
    /\ InitStore
    /\ foreign = <<>>
    /\ imp = Idle
    /\ progress = <<>>
    /\ results = <<>>
    /\ desktop = PlainDesktop
    /\ session = NotConnected
    /\ vault \in {NoVaultCall(e) : e \in Entries}
    /\ codec = NoCodec
    /\ call = NoCall
    /\ store = NoStore
    /\ threads = NoThreads

NextVault == GetOrCreateEncryptionKey

SpecVault == InitVault /\ [][NextVault]_vars

----------------------------------------------------------------------------
(* The connection of the store.  store is the instance of MessageStore and *)
(* the file it opens:                                                      *)
(*   made             the constructor has returned                         *)
(*   _conn            the handle held, by number, 0 for None               *)
(*   _encryption_key  the cached key, <<>> for None                        *)
(*   live             the handles opened by sqlcipher.connect and not      *)
(*                    closed                                               *)
(*   opens            the number of handles opened so far                  *)
(*   closes           the number of handles close() has closed             *)
(*   vaultCalls       the calls of get_or_create_encryption_key made by    *)
(*                    the instance                                         *)
(*   fileKey          the key the database file is encrypted with, <<>>    *)
(*                    while there is no file                               *)
(*   op, out          the last call and what it returned or raised         *)

\* raise exc(msg) from cause
RaiseFrom(exc, msg, cause) ==
    [kind |-> "raise", key |-> <<>>, exc |-> exc, msg |-> msg,
     cause |-> cause]

\* the value a query returned
ReturnValue(v) == [kind |-> "return", key |-> <<>>, exc |-> "", value |-> v]

\* the message of the RuntimeError of _get_conn (the path of the database
\* follows it)
OpenFailed == "Failed to open encrypted database"

\* the canary query failed and the handle is left open, held by _conn
CanaryFailure_KeepHandle(st, h, cause) ==
    [store |-> [st EXCEPT !.opens = h, !._conn = h, !.live = @ \cup {h}],
     out |-> RaiseFrom("RuntimeError", OpenFailed, cause)]

\* the except branch of _get_conn: the handle h is closed, _conn is None,
\* RuntimeError is raised from the exception of the canary query
CanaryFailure(st, h, cause) ==
    [store |-> [st EXCEPT !.opens = h, !._conn = 0],
     out |-> RaiseFrom("RuntimeError", OpenFailed, cause)]

\* _get_conn from sqlcipher.connect on, with the key cached: every outcome.
\* connect can raise (the file cannot be opened); the canary query fails
\* when the file is encrypted with another key, and it can fail for an I/O
\* error whatever the key
OpenOutcomes(st, key) ==
    LET h == st.opens + 1
    IN {[store |-> st, out |-> Raise("OperationalError")]}
       \cup {CanaryFailure(st, h, "OperationalError")}
       \cup (IF st.fileKey # <<>> /\ st.fileKey # key
             THEN {CanaryFailure(st, h, "DatabaseError")}
             ELSE {[store |-> [st EXCEPT !.opens = h, !._conn = h,
                                         !.live = @ \cup {h}],
                    out |-> ReturnNone]})

\* _get_conn that opens a handle whether or not one is held
_get_conn_AlwaysOpen(st, v) ==
    {[store |-> o.store, vault |-> v, out |-> o.out] :
        o \in OpenOutcomes(st, st._encryption_key)}

\* MessageStore._get_conn on instance st with the credential store v: every
\* outcome, with the instance and the credential store it leaves
_get_conn(st, v) ==
    IF st._conn # 0 THEN {[store |-> st, vault |-> v, out |-> ReturnNone]}
    ELSE IF st._encryption_key # <<>>
    THEN {[store |-> o.store, vault |-> v, out |-> o.out] :
             o \in OpenOutcomes(st, st._encryption_key)}
    ELSE UNION {
           LET called == [st EXCEPT !.vaultCalls = @ + 1]
           IN IF r.out.kind = "raise"
              THEN {[store |-> called, vault |-> VaultAfter(r), out |-> r.out]}
              ELSE {[store |-> o.store, vault |-> VaultAfter(r), out |-> o.out] :
                      o \in OpenOutcomes(
                               [called EXCEPT !._encryption_key = r.out.key],
                               r.out.key)} :
           r \in get_or_create_encryption_key(v.entry)}

\* the other variables
StoreFrame ==
    <<foreign, imp, progress, results, desktop, session, codec, call, threads>>

\* the fields of an instance as __init__ sets them, before _init_db
NewInstance(st) ==
    [st EXCEPT !._conn = 0, !._encryption_key = <<>>, !.vaultCalls = 0]

\* MessageStore(db_path): __init__ sets _conn and _encryption_key to None and
\* runs _init_db, which opens the connection and creates the tables; when
\* it raises there is no instance
StoreNew ==
    /\ ~store.made
    /\ store.opens < MaxOpens
    /\ \E o \in _get_conn(NewInstance(store), vault) :
          /\ vault' = o.vault
          /\ store' = IF o.out.kind = "raise"
                      THEN [o.store EXCEPT !.op = "__init__", !.out = o.out]
                      ELSE [o.store EXCEPT !.made = TRUE,
                                           !.fileKey = o.store._encryption_key,
                                           !.op = "__init__",
                                           !.out = ReturnNone]
    /\ UNCHANGED <<messages, conversations, lastOp, commits, StoreFrame>>

\* MessageStore.get_message_count
StoreGetMessageCount ==
    /\ store.made
    /\ store.opens < MaxOpens
    /\ \E o \in _get_conn(store, vault) :
          /\ vault' = o.vault
          /\ store' = [o.store EXCEPT
                         !.op = "get_message_count",
                         !.out = IF o.out.kind = "raise" THEN o.out
                                 ELSE ReturnValue(get_message_count(messages))]
    /\ UNCHANGED <<messages, conversations, lastOp, commits, StoreFrame>>

\* MessageStore.save_message through the connection of the instance
StoreSaveMessage(c, m) ==
    /\ store.made
    /\ store.opens < MaxOpens
    /\ \E o \in _get_conn(store, vault) :
          /\ vault' = o.vault
          /\ store' = [o.store EXCEPT !.op = "save_message", !.out = o.out]
          /\ IF o.out.kind = "raise"
             THEN UNCHANGED <<messages, conversations, lastOp, commits>>
             ELSE SaveMessage(c, m)
    /\ UNCHANGED StoreFrame

\* MessageStore.close
StoreClose ==
    /\ store.made
    /\ store' = [store EXCEPT !._conn = 0,
                              !.live = @ \ {store._conn},
                              !.closes = IF store._conn # 0 THEN @ + 1 ELSE @,
                              !.op = "close",
                              !.out = ReturnNone]
    /\ UNCHANGED <<messages, conversations, lastOp, commits, vault, StoreFrame>>

\* the keys a database file made earlier is encrypted with
FileKeys == {Hex(<<171>>), Hex(<<0, 255>>)}

\* no instance yet; a database file made earlier, or none; any entry in the
\* credential store
InitConn ==
    /\ InitStore
    /\ foreign = <<>>
    /\ imp = Idle
    /\ progress = <<>>
    /\ results = <<>>
    /\ desktop = PlainDesktop
    /\ session = NotConnected
    /\ vault \in {NoVaultCall(e) : e \in Entries}
    /\ codec = NoCodec
    /\ call = NoCall
    /\ store \in {[NoStore EXCEPT !.fileKey = k] : k \in {<<>>} \cup FileKeys}
    /\ threads = NoThreads

NextConn ==
    \/ StoreNew
    \/ StoreGetMessageCount
    \/ \E m \in {q \in MessagesOver({ShortBody}) :
                    ~q.is_outgoing /\ ~q.is_read /\ q.sender_name = ""} :
          StoreSaveMessage("+1", m)
    \/ StoreClose

SpecConn == InitConn /\ [][NextConn]_vars

----------------------------------------------------------------------------
(* The codec in use.  codec holds the last envelope made, with the text or *)
(* data, password and version it was made from, and the last decryption of *)
(* it: the password used and the result.                                   *)

\* an envelope: how it was made, and no decryption yet
Envelope(made, text, data, password, version, hex) ==
    [op |-> "made", made |-> made, text |-> text, data |-> data,
     password |-> password, version |-> version, envelope |-> hex,
     with |-> <<>>,
     result |-> CodecResult([kind |-> "none", key |-> <<>>, exc |-> ""],
                            FALSE, <<>>)]

\* encrypt_for_safe_storage(plaintext, password, version)
CodecEncrypt ==
    /\ \E P \in Plaintexts, W \in Passwords, v \in Versions :
          codec' = Envelope("encrypt", P, Pad(encode_utf8(P)), W, v,
                            encrypt_for_safe_storage(P, W, v))
    /\ UNCHANGED <<messages, conversations, lastOp, commits, foreign, imp,
                   progress, results, desktop, session, vault, call,
                   store, threads>>

\* an envelope whose blocks were not padded by safeStorage
CodecSeal ==
    /\ \E D \in RawData, W \in Passwords, v \in Versions :
          codec' = Envelope("seal", <<>>, D, W, v, Seal(D, W, v))
    /\ UNCHANGED <<messages, conversations, lastOp, commits, foreign, imp,
                   progress, results, desktop, session, vault, call,
                   store, threads>>

\* an envelope with another header
CodecReceive ==
    /\ \E e \in OtherEnvelopes :
          codec' = Envelope("receive", <<>>, <<>>, <<>>, <<>>, Hex(e))
    /\ UNCHANGED <<messages, conversations, lastOp, commits, foreign, imp,
                   progress, results, desktop, session, vault, call,
                   store, threads>>

\* _decrypt_safe_storage(encrypted_hex, password) on the last envelope
CodecDecrypt ==
    /\ codec.op = "made"
    /\ \E W \in Passwords :
          codec' = [codec EXCEPT !.op = "decrypt", !.with = W,
                                 !.result = DecryptSafeStorage(codec.envelope, W)]
    /\ UNCHANGED <<messages, conversations, lastOp, commits, foreign, imp,
                   progress, results, desktop, session, vault, call,
                   store, threads>>

NextCodec ==
    \/ CodecEncrypt
    \/ CodecSeal
    \/ CodecReceive
    \/ CodecDecrypt

SpecCodec == Init /\ [][NextCodec]_vars

----------------------------------------------------------------------------
(* The store statement by statement.  save_message and mark_messages_read  *)
(* each run two statements with a conn.commit() after each, so every step  *)
(* below ends with the two tables durable as they are.  call is the frame  *)
(* of the call in progress: the method, its arguments, the rowcount of its *)
(* first statement and the statement it is at.  When the call has returned *)
(* the frame is gone; when the process ended inside it, call names the     *)
(* method and the conversation id with pc "crashed".                       *)

\* the importer, the key of the store and the codec
bystanders == <<foreign, imp, progress, results, desktop, session, vault,
                codec, store, threads>>

\* a call can start: the last one returned, or the process that made it
\* ended and the store was opened again
CanCall == call.pc \in {"return", "crashed"}

\* save_message up to its conn.commit(): the INSERT OR IGNORE
SaveMessageInsert(c, m) ==
    LET msgs  == InsertOrIgnore(messages, SaveRow(c, m))
        convs == UpdateConversationOnMessage(conversations, c, m)
    IN /\ CanCall
       /\ BagCardinality(msgs) <= MaxRows
       /\ convs[c].unreadCount <= MaxUnread
       /\ messages' = msgs
       /\ commits' = <<msgs>>
       /\ call' = [op |-> "save_message", pc |-> "aggregate", c |-> c,
                   m |-> m, rowcount |-> RowCount(messages, SaveRow(c, m))]
       /\ UNCHANGED <<conversations, lastOp, bystanders>>

\* save_message from its call of _update_conversation_on_message to its
\* return
SaveMessageAggregate ==
    /\ call.op = "save_message" /\ call.pc = "aggregate"
    /\ conversations' = UpdateConversationOnMessage(conversations, call.c, call.m)
    /\ commits' = Append(commits, messages)
    /\ lastOp' = [op |-> "save_message", ret |-> call.rowcount]
    /\ call' = NoCall
    /\ UNCHANGED <<messages, bystanders>>

\* a statement of _update_conversation_on_message raises sqlite3.Error:
\* save_message returns -1 and the committed INSERT stays
SaveMessageError ==
    /\ call.op = "save_message" /\ call.pc = "aggregate"
    /\ lastOp' = [op |-> "save_message", ret |-> -1]
    /\ call' = NoCall
    /\ UNCHANGED <<messages, conversations, commits, bystanders>>

\* mark_messages_read up to its first conn.commit(): the UPDATE of messages
MarkMessagesReadMessages(c) ==
    /\ CanCall
    /\ messages' = MarkedRead(messages, c)
    /\ commits' = <<messages'>>
    /\ call' = [op |-> "mark_messages_read", pc |-> "conversations", c |-> c]
    /\ UNCHANGED <<conversations, lastOp, bystanders>>

\* mark_messages_read from its UPDATE of conversations to its return
MarkMessagesReadConversation ==
    /\ call.op = "mark_messages_read" /\ call.pc = "conversations"
    /\ conversations' = IF call.c \in DOMAIN conversations
                        THEN [conversations EXCEPT ![call.c].unreadCount = 0]
                        ELSE conversations
    /\ commits' = Append(commits, messages)
    /\ lastOp' = [op |-> "mark_messages_read", ret |-> 0]
    /\ call' = NoCall
    /\ UNCHANGED <<messages, bystanders>>

\* the process ends between the two statements of a call; what was
\* committed stays
Crash ==
    /\ ~CanCall
    /\ call' = [op |-> call.op, pc |-> "crashed", c |-> call.c]
    /\ UNCHANGED <<messages, conversations, lastOp, commits, bystanders>>

NextSteps ==
    \/ \E c \in ConvIds, m \in MessagesOver({ShortBody}) :
          SaveMessageInsert(c, m)
    \/ SaveMessageAggregate
    \/ SaveMessageError
    \/ \E c \in ConvIds : MarkMessagesReadMessages(c)
    \/ MarkMessagesReadConversation
    \/ Crash

SpecSteps == Init /\ [][NextSteps]_vars

----------------------------------------------------------------------------
(* Two threads on one store.  The connection is opened with                *)
(* check_same_thread=False and no method takes a lock, so two threads that *)
(* share the MessageStore run their statements in any interleaving, each   *)
(* through a cursor of its own on the one connection.  threads holds the   *)
(* two tables as they were when the threads started (base) and the frame   *)
(* of each thread: the method, its arguments, the row its SELECT fetched   *)
(* (existing), the statement it is at and its outcome.  Each thread makes  *)
(* one call on conversation "+1".                                          *)

Threads == {1, 2}

\* the messages the threads save: every direction, read flag and time
ThreadMessages ==
    {m \in MessagesOver({ShortBody}) : m.sender_name = ""}

\* the tables of a store
Tables(msgs, convs) == [messages |-> msgs, conversations |-> convs]

\* save_message(m, c), about to run its INSERT OR IGNORE
SaveFrame(c, m) ==
    [op |-> "save_message", pc |-> "insert", c |-> c, m |-> m,
     existing |-> <<>>, out |-> ReturnNone]

\* mark_messages_read(c), about to run its UPDATE of messages
MarkFrame(c) ==
    [op |-> "mark_messages_read", pc |-> "messages", c |-> c,
     out |-> ReturnNone]

ThreadCalls ==
    {SaveFrame("+1", m) : m \in ThreadMessages} \cup {MarkFrame("+1")}

\* the tables after the call of frame f ran alone from tables st
CallAlone(st, f) ==
    IF f.op = "save_message"
    THEN Tables(InsertOrIgnore(st.messages, SaveRow(f.c, f.m)),
                UpdateConversationOnMessage(st.conversations, f.c, f.m))
    ELSE Tables(MarkedRead(st.messages, f.c),
                IF f.c \in DOMAIN st.conversations
                THEN [st.conversations EXCEPT ![f.c].unreadCount = 0]
                ELSE st.conversations)

\* a new store, or one that holds one saved message
BaseStores ==
    LET new == Tables(EmptyBag, [c \in {} |-> 0])
    IN {new} \cup {CallAlone(new, SaveFrame("+1", m)) : m \in ThreadMessages}

\* the frame of thread t moves to f
ThreadStep(t, f) == threads' = [threads EXCEPT !.frame[t] = f]

\* save_message, lines 339-354: INSERT OR IGNORE INTO messages and commit
ThreadInsert(t) ==
    LET f    == threads.frame[t]
        msgs == InsertOrIgnore(messages, SaveRow(f.c, f.m))
    IN /\ f.pc = "insert"
       /\ BagCardinality(msgs) <= MaxRows
       /\ messages' = msgs
       /\ ThreadStep(t, [f EXCEPT !.pc = "select"])
       /\ UNCHANGED <<conversations, lastOp, commits, foreign, imp, progress,
                      results, desktop, session, vault, codec, call, store>>

\* _update_conversation_on_message, lines 497-498: SELECT the row of the
\* conversation and fetch it
ThreadSelect(t) ==
    LET f == threads.frame[t]
    IN /\ f.pc = "select"
       /\ ThreadStep(t, [f EXCEPT
             !.pc = "write",
             !.existing = IF f.c \in DOMAIN conversations
                          THEN <<conversations[f.c]>> ELSE <<>>])
       /\ UNCHANGED <<messages, conversations, lastOp, commits, foreign, imp,
                      progress, results, desktop, session, vault, codec,
                      call, store>>

\* _update_conversation_on_message, lines 500-511: a row was fetched; the
\* UPDATE binds the values computed from the fetched row
ThreadUpdate(t) ==
    LET f        == threads.frame[t]
        existing == f.existing[1]
        sent_at  == SentAtOf(f.m.timestamp)
        new_unread == IF ~f.m.is_outgoing /\ ~f.m.is_read
                      THEN existing.unreadCount + 1
                      ELSE existing.unreadCount
    IN /\ f.pc = "write"
       /\ f.existing # <<>>
       /\ new_unread <= MaxUnread
       /\ conversations' =
             IF existing.lastMessageAt = NULL \/ sent_at >= existing.lastMessageAt
             THEN [conversations EXCEPT
                      ![f.c].lastMessage = Preview(f.m.body),
                      ![f.c].lastMessageAt = sent_at,
                      ![f.c].unreadCount = new_unread]
             ELSE conversations
       /\ ThreadStep(t, [f EXCEPT !.pc = "done", !.out = ReturnValue(0)])
       /\ UNCHANGED <<messages, lastOp, commits, foreign, imp, progress,
                      results, desktop, session, vault, codec, call, store>>

\* _update_conversation_on_message, lines 512-525: no row was fetched; the
\* INSERT INTO conversations runs against the table as it is now
ThreadCreate(t) ==
    LET f == threads.frame[t]
    IN /\ f.pc = "write"
       /\ f.existing = <<>>
       /\ f.c \notin DOMAIN conversations
       /\ conversations' =
             UpdateConversationOnMessage(conversations, f.c, f.m)
       /\ ThreadStep(t, [f EXCEPT !.pc = "done", !.out = ReturnValue(0)])
       /\ UNCHANGED <<messages, lastOp, commits, foreign, imp, progress,
                      results, desktop, session, vault, codec, call, store>>

\* the INSERT INTO conversations meets a row with its primary key: the
\* statement raises IntegrityError, which save_message turns into -1 when
\* the class derives from sqlite3.Error (line 360) and lets through when
\* the SQLCipher module has exception classes of its own
ThreadCreateFails(t) ==
    LET f == threads.frame[t]
    IN /\ f.pc = "write"
       /\ f.existing = <<>>
       /\ f.c \in DOMAIN conversations
       /\ \E out \in {ReturnValue(-1), Raise("IntegrityError")} :
             ThreadStep(t, [f EXCEPT !.pc = "done", !.out = out])
       /\ UNCHANGED <<messages, conversations, lastOp, commits, foreign, imp,
                      progress, results, desktop, session, vault, codec,
                      call, store>>

\* mark_messages_read, lines 421-425: UPDATE messages SET isRead = 1
ThreadMarkMessages(t) ==
    LET f == threads.frame[t]
    IN /\ f.pc = "messages"
       /\ messages' = MarkedRead(messages, f.c)
       /\ ThreadStep(t, [f EXCEPT !.pc = "conversations"])
       /\ UNCHANGED <<conversations, lastOp, commits, foreign, imp, progress,
                      results, desktop, session, vault, codec, call, store>>

\* mark_messages_read, lines 428-432: UPDATE conversations SET unreadCount = 0
ThreadMarkConversation(t) ==
    LET f == threads.frame[t]
    IN /\ f.pc = "conversations"
       /\ conversations' = IF f.c \in DOMAIN conversations
                           THEN [conversations EXCEPT ![f.c].unreadCount = 0]
                           ELSE conversations
       /\ ThreadStep(t, [f EXCEPT !.pc = "done"])
       /\ UNCHANGED <<messages, lastOp, commits, foreign, imp, progress,
                      results, desktop, session, vault, codec, call, store>>

\* a store, new or with one message, and two threads about to call it
InitThreads ==
    /\ \E base \in BaseStores, frame \in [Threads -> ThreadCalls] :
          /\ messages = base.messages
          /\ conversations = base.conversations
          /\ threads = [base |-> base, frame |-> frame]
    /\ lastOp = [op |-> "init", ret |-> 0]
    /\ commits = <<>>
    /\ foreign = <<>>
    /\ imp = Idle
    /\ progress = <<>>
    /\ results = <<>>
    /\ desktop = PlainDesktop
    /\ session = NotConnected
    /\ vault = NoVaultCall(NoEntry)
    /\ codec = NoCodec
    /\ call = NoCall
    /\ store = NoStore

NextThreads ==
    \E t \in Threads :
       \/ ThreadInsert(t)
       \/ ThreadSelect(t)
       \/ ThreadUpdate(t)
       \/ ThreadCreate(t)
       \/ ThreadCreateFails(t)
       \/ ThreadMarkMessages(t)
       \/ ThreadMarkConversation(t)

SpecThreads == InitThreads /\ [][NextThreads]_vars

----------------------------------------------------------------------------
(* Properties.                                                             *)

\* C1: after any sequence of save_message and bulk_insert_messages calls the
\* store holds at most one message row per dedup key
\* (conversationId, sent_at, source, body); an insert of a stored key adds
\* no row.
C1_OneRowPerDedupKey ==
    /\ \A r \in BagToSet(messages) : messages[r] = 1
    /\ \A r, q \in BagToSet(messages) : DedupKey(r) = DedupKey(q) => r = q

\* a save_message whose INSERT was ignored has just returned
C1_Witness ==
    /\ lastOp.op = "save_message"
    /\ lastOp.ret = 0
    /\ get_message_count(messages) = 1

\* C2: save_message of a message whose dedup key is already stored leaves
\* the conversation rows as they were.
C2_ResaveIsNoOp ==
    [][(lastOp'.op = "save_message" /\ lastOp'.ret = 0)
          => conversations' = conversations]_vars

\* C3 as stated: after every completed store operation, every conversation
\* id with a stored message has a row whose lastMessageAt is the greatest
\* sent_at stored for it and whose lastMessage is the preview of a stored
\* message with that sent_at.
C3_AlwaysAggregated ==
    \A c \in ConvIds : Aggregated(messages, conversations, c)

\* C3, amended: every store operation other than bulk_insert_messages keeps
\* the aggregate of each conversation in agreement with its stored messages,
\* and update_conversation_from_messages brings every conversation that has
\* a row into agreement.
C3_AggregationMaintained ==
    [][/\ lastOp'.op # "bulk_insert_messages" =>
             \A c \in ConvIds :
                Aggregated(messages, conversations, c)
                   => Aggregated(messages', conversations', c)
       /\ lastOp'.op = "update_conversation_from_messages" =>
             \A c \in DOMAIN conversations :
                conversations'[c] # conversations[c]
                   => Aggregated(messages', conversations', c)]_vars

\* the aggregation pass has just pushed a newer bulk-inserted message into an
\* existing conversation row
C3_Witness ==
    /\ lastOp.op = "update_conversation_from_messages"
    /\ commits # <<>>
    /\ "+1" \in DOMAIN conversations
    /\ conversations["+1"].lastMessageAt = 2
    /\ Aggregated(messages, conversations, "+1")
    /\ \E i \in RowsOf(messages, "+1") : i[1].sent_at = 1 /\ ~i[1].isRead
    /\ \A i \in RowsOf(messages, "+1") : i[1].sent_at = 2 => i[1].isRead

\* C4: a conversation's lastMessageAt, once non-null, never decreases (and
\* the row is never removed).
C4_LastMessageAtMonotonic ==
    [][\A c \in DOMAIN conversations :
          /\ c \in DOMAIN conversations'
          /\ conversations[c].lastMessageAt # NULL =>
                /\ conversations'[c].lastMessageAt # NULL
                /\ conversations'[c].lastMessageAt >= conversations[c].lastMessageAt]_vars

\* a message with sent_at 1 has been saved after one with sent_at 2 (only the
\* first of the two unread incoming messages was counted) and lastMessageAt
\* is still 2
C4_Witness ==
    /\ lastOp.op = "save_message"
    /\ lastOp.ret = 1
    /\ "+1" \in DOMAIN conversations
    /\ conversations["+1"].lastMessageAt = 2
    /\ conversations["+1"].unreadCount = 1
    /\ {i[1].sent_at : i \in RowsOf(messages, "+1")} = {1, 2}
    /\ \A i \in RowsOf(messages, "+1") : ~i[1].isRead /\ i[1].type = "incoming"

\* C5: every conversation's unreadCount is non-negative and equals the number
\* of stored incoming unread messages of the conversation.
C5_UnreadCountMatches ==
    \A c \in DOMAIN conversations :
       /\ conversations[c].unreadCount >= 0
       /\ conversations[c].unreadCount = get_unread_count(messages, c)

\* C6: in a conversation that starts without messages, saving N distinct
\* incoming unread messages in non-decreasing time order makes unreadCount N;
\* mark_messages_read then makes unreadCount and get_unread_count 0 and every
\* message of the conversation read, and leaves the messages and rows of the
\* other conversations as they were.
C6_UnreadAccounting ==
    [][/\ \A c \in ConvIds :
             RowsOf(messages', c) # {} =>
                /\ c \in DOMAIN conversations'
                /\ conversations'[c].unreadCount = get_unread_count(messages', c)
                /\ (\A i \in RowsOf(messages', c) : ~i[1].isRead) =>
                      conversations'[c].unreadCount = Cardinality(RowsOf(messages', c))
       /\ lastOp'.op = "mark_messages_read" =>
             \E c \in ConvIds :
                /\ c \in DOMAIN conversations' => conversations'[c].unreadCount = 0
                /\ get_unread_count(messages', c) = 0
                /\ \A i \in RowsOf(messages', c) : i[1].isRead
                /\ Cardinality(RowsOf(messages', c)) = Cardinality(RowsOf(messages, c))
                /\ \A d \in ConvIds \ {c} :
                      /\ RowsOf(messages', d) = RowsOf(messages, d)
                      /\ d \in DOMAIN conversations =>
                            /\ d \in DOMAIN conversations'
                            /\ conversations'[d] = conversations[d]
                /\ DOMAIN conversations' = DOMAIN conversations]_vars

\* the two unread messages saved to "+1" have just been marked read, and the
\* row of "g1" is there
C6_Witness ==
    /\ lastOp.op = "mark_messages_read"
    /\ DOMAIN conversations = ConvIds
    /\ Cardinality(RowsOf(messages, "+1")) = 2
    /\ \A i \in RowsOf(messages, "+1") : i[1].isRead /\ i[1].type = "incoming"
    /\ conversations["+1"].unreadCount = 0
    /\ conversations["g1"].lastMessageAt = NULL

\* C7: get_messages(conversation_id, limit) returns at most limit messages,
\* all of that conversation, in ascending time order, and none of the
\* conversation's messages it leaves out is newer than one it returns.
C7_MostRecentAscending ==
    \A c \in ConvIds, limit \in Limits :
       /\ \A res \in get_messages(messages, c, limit, None) :
             /\ Len(res) <= limit
             /\ \A i, j \in 1..Len(res) :
                   i < j => res[i].timestamp <= res[j].timestamp
       /\ \A s \in SelectMessages(messages, c, limit, None) :
             /\ \A i \in 1..Len(s) : s[i] \in RowsOf(messages, c)
             /\ \A i, j \in 1..Len(s) : i # j => s[i] # s[j]
             /\ Len(s) = Min(limit, Cardinality(RowsOf(messages, c)))
             /\ \A q \in RowsOf(messages, c) \ {s[i] : i \in 1..Len(s)} :
                   \A i \in 1..Len(s) : q[1].sent_at <= s[i][1].sent_at

\* a conversation holds an older and a newer message, so that limit 1 must
\* leave the older one out
C7_Witness ==
    /\ {i[1].sent_at : i \in RowsOf(messages, "g1")} = {1, 2}
    /\ \A res \in get_messages(messages, "g1", 1, None) :
          Len(res) = 1 /\ res[1].timestamp = 2000

\* C8: whenever before_timestamp is given to get_messages, 0 included, every
\* returned message has sent_at below before_timestamp.
C8_BeforeTimestampFilters ==
    \A c \in ConvIds, limit \in Limits, before \in Befores \ {None} :
       \A res \in get_messages(messages, c, limit, before) :
          \A i \in 1..Len(res) : res[i].timestamp < before * 1000

\* C9: ensure_conversation creates a row (empty preview, NULL lastMessageAt,
\* unreadCount 0) only for an id that has none, and changes no field of a
\* row that exists; it changes no message.
C9_EnsureConversationKeepsRows ==
    [][lastOp'.op = "ensure_conversation" =>
          /\ messages' = messages
          /\ \A c \in DOMAIN conversations :
                c \in DOMAIN conversations' /\ conversations'[c] = conversations[c]
          /\ Cardinality(DOMAIN conversations' \ DOMAIN conversations) <= 1
          /\ \A c \in DOMAIN conversations' \ DOMAIN conversations :
                /\ conversations'[c].lastMessage = <<>>
                /\ conversations'[c].lastMessageAt = NULL
                /\ conversations'[c].unreadCount = 0
                /\ conversations'[c].name \in Names
                /\ conversations'[c].type \in {"private", "group"}
          /\ (commits' = <<>>) = (DOMAIN conversations' = DOMAIN conversations)]_vars

\* ensure_conversation has just been called, with another name, for a
\* conversation that a message created
C9_Witness ==
    /\ lastOp.op = "ensure_conversation"
    /\ commits = <<>>
    /\ "+1" \in DOMAIN conversations
    /\ conversations["+1"].name = "+1"
    /\ conversations["+1"].lastMessageAt # NULL
    /\ "g1" \notin DOMAIN conversations

\* C10: bulk_insert_messages returns the number of rows it added (the
\* increase of get_message_count), which is the number of dedup keys it
\* added (a pair whose key is stored or occurs earlier in the batch adds
\* none), and the rows of the batch become durable together, by one commit.
C10_BulkCountAndTransaction ==
    [][lastOp'.op = "bulk_insert_messages" =>
          /\ lastOp'.ret = get_message_count(messages') - get_message_count(messages)
          /\ lastOp'.ret = Cardinality(StoredKeys(messages') \ StoredKeys(messages))
          /\ messages \sqsubseteq messages'
          /\ commits' = <<messages'>>]_vars

\* a batch has just added two rows at once
C10_Witness ==
    /\ lastOp.op = "bulk_insert_messages"
    /\ lastOp.ret = 2
    /\ get_message_count(messages) = 2
    /\ commits = <<messages>>

\* C11: every row bulk_insert_messages adds is stored as read, whatever the
\* is_read flag and the direction of the message handed in, and
\* bulk_insert_messages creates and changes no conversation row.
C11_BulkRowsReadNoAggregation ==
    [][lastOp'.op = "bulk_insert_messages" =>
          /\ conversations' = conversations
          /\ \A r \in BagToSet(messages') :
                CopiesIn(r, messages') > CopiesIn(r, messages) => r.isRead]_vars

\* a batch has just added an incoming row, stored as read, next to the
\* unread incoming message of a conversation whose row still counts one
\* unread message and shows the older message
C11_Witness ==
    /\ lastOp.op = "bulk_insert_messages"
    /\ lastOp.ret = 1
    /\ "+1" \in DOMAIN conversations
    /\ conversations["+1"].unreadCount = 1
    /\ conversations["+1"].lastMessageAt = 1
    /\ \E i, j \in RowsOf(messages, "+1") :
          /\ i[1].sent_at = 1 /\ ~i[1].isRead
          /\ j[1].sent_at = 2 /\ j[1].isRead /\ j[1].type = "incoming"

\* C12: a second run of import_all over the same foreign database reports 0
\* inserted messages and leaves the message count and the conversation
\* count of the store as the first run left them, for every foreign
\* database, rows without sent_at and received_at included.
C12_SecondImportAddsNothing ==
    Len(results) = 2 =>
       /\ results[2].total_messages = 0
       /\ results[2].message_count = results[1].message_count
       /\ results[2].conversation_count = results[1].conversation_count

\* the greatest sent_at stored for conversation c is t
MaxSentAt(msgs, c, t) ==
    /\ \E i \in RowsOf(msgs, c) : i[1].sent_at = t
    /\ \A i \in RowsOf(msgs, c) : i[1].sent_at <= t

\* C13: for each foreign conversation with messages, import_all calls
\* bulk_insert_messages, then ensure_conversation, then
\* update_conversation_from_messages once, in that order and with no other
\* store call between them; when import_all returns, each such conversation
\* has a row whose lastMessageAt is the greatest sent_at stored for it.
C13_ImportOrderAndResult ==
    [][/\ imp.pc # "idle" /\ lastOp'.op = "bulk_insert_messages" =>
             /\ imp.pc = "messages" /\ conv.rows # <<>>
             /\ imp'.pc = "ensure"
       /\ imp.pc = "ensure" =>
             /\ lastOp.op = "bulk_insert_messages"
             /\ lastOp'.op = "ensure_conversation"
             /\ imp'.pc = "aggregate" /\ imp'.i = imp.i
       /\ imp.pc = "aggregate" =>
             /\ lastOp.op = "ensure_conversation"
             /\ lastOp'.op = "update_conversation_from_messages"
             /\ imp'.pc = "loop" /\ imp'.i = imp.i + 1
       /\ imp.pc \in {"idle", "loop"} /\ imp'.pc \in {"idle", "loop", "messages"} =>
             UNCHANGED <<messages, conversations, lastOp>> \/ imp'.pc = "idle"
       /\ Len(results') > Len(results) =>
             \A k \in 1..Len(foreign) :
                foreign[k].rows # <<>> =>
                   /\ foreign[k].id \in DOMAIN conversations'
                   /\ MaxSentAt(messages', foreign[k].id,
                                conversations'[foreign[k].id].lastMessageAt)]_vars

\* import_all has returned after it pushed an imported message with sent_at
\* 2 into the row of a conversation that the live message path created with
\* a message with sent_at 1
C13_Witness ==
    /\ Len(results) = 1
    /\ imp.pc = "idle"
    /\ results[1].total_messages = 1
    /\ "+1" \in DOMAIN conversations
    /\ conversations["+1"].name = "+1"
    /\ conversations["+1"].lastMessageAt = 2
    /\ \E i, j \in RowsOf(messages, "+1") :
          /\ i[1].sent_at = 1 /\ ~i[1].isRead
          /\ j[1].sent_at = 2 /\ j[1].isRead

\* row r of table messages is the row import_all inserts for a foreign row
\* of conversation fc
ImportedRow(r, fc) ==
    \E k \in 1..Len(fc.rows), now \in ClockTimes :
       DedupKey(r) = DedupKey(BulkRow(fc.id, ToMessage(fc.rows[k], now)))

\* C14: no step of import_all changes name, type or unreadCount of a
\* conversation row that exists, or removes the row; it changes lastMessage
\* and lastMessageAt of a row only to those of an imported message that is
\* strictly newer than the stored lastMessageAt (or when none is stored).
C14_ImportKeepsExistingRows ==
    [][imp.pc # "idle" =>
          \A c \in DOMAIN conversations :
             /\ c \in DOMAIN conversations'
             /\ conversations'[c].name = conversations[c].name
             /\ conversations'[c].type = conversations[c].type
             /\ conversations'[c].unreadCount = conversations[c].unreadCount
             /\ conversations'[c] # conversations[c] =>
                   /\ c = conv.id
                   /\ \E i \in RowsOf(messages', c) :
                         /\ ImportedRow(i[1], conv)
                         /\ conversations'[c].lastMessageAt = i[1].sent_at
                         /\ conversations'[c].lastMessage = Preview(i[1].body)
                         /\ \/ conversations[c].lastMessageAt = NULL
                            \/ conversations[c].lastMessageAt < i[1].sent_at]_vars

\* import_all has returned after it added an older message to a conversation
\* of the live message path: the row keeps its name (the foreign name is
\* "Al"), its unread count and the newer live message as its last message
C14_Witness ==
    /\ Len(results) = 1
    /\ imp.pc = "idle"
    /\ results[1].total_messages = 1
    /\ foreign[1].name = "Al"
    /\ "+1" \in DOMAIN conversations
    /\ conversations["+1"].name = "+1"
    /\ conversations["+1"].type = "private"
    /\ conversations["+1"].unreadCount = 1
    /\ conversations["+1"].lastMessageAt = 2
    /\ \E i, j \in RowsOf(messages, "+1") :
          /\ i[1].sent_at = 2 /\ ~i[1].isRead
          /\ j[1].sent_at = 1 /\ j[1].isRead

\* C15: progress_callback is called once per foreign conversation, in the
\* order get_conversations returned them, with (name, index, total) where
\* index runs from 1 to total, and each call is made after the conversation
\* was processed: its rows are in table messages and its aggregation pass
\* has run.
C15_ProgressAfterProcessing ==
    /\ Len(progress) <= Len(foreign)
    /\ imp.pc = "idle" /\ results # <<>> => Len(progress) = Len(foreign)
    /\ \A k \in 1..Len(progress) :
          /\ progress[k].name = foreign[k].name
          /\ progress[k].index = k
          /\ progress[k].total = Len(foreign)
          /\ progress[k].stored
          /\ progress[k].aggregated

\* config.json can be read and holds a non-empty "key" of hex digits only
PlainKeyUsable ==
    /\ desktop.config.file = "json"
    /\ desktop.config.key # <<>>
    /\ \A i \in 1..Len(desktop.config.key) :
          \E j \in 1..16 : HexDigits[j] = Lower(desktop.config.key[i])

\* the credential store hands out its entry and the entry is the
\* safeStorage password under which encryptedKey was encrypted
EncryptedKeyUsable ==
    /\ desktop.config.file = "json"
    /\ desktop.config.encryptedKey.form = "v10"
    /\ desktop.keychain.status = "ok"
    /\ desktop.keychain.stdout = desktop.config.encryptedKey.password \o <<"\n">>

\* the credential store hands out its entry and the entry is the base64
\* text of a key
KeychainKeyUsable ==
    /\ desktop.keychain.status = "ok"
    /\ desktop.keychain.stdout = b64encode(FromHex(DbKey)) \o <<"\n">>

\* the step is a direct call of get_encryption_key
KeyCallStep == imp.pc = "idle" /\ session'.op = "get_encryption_key"

\* C16: get_encryption_key returns the "key" of config.json whenever it is
\* present and all hex digits, without a run of `security`; otherwise the
\* decrypted encryptedKey when there is one (and it decrypts); otherwise the
\* key stored in the credential store; a "key" that is not hex is never
\* returned.
C16_KeyPriority ==
    [][KeyCallStep =>
          /\ PlainKeyUsable =>
                /\ session'.out = Return(desktop.config.key)
                /\ session'.accesses = session.accesses
          /\ ~PlainKeyUsable /\ EncryptedKeyUsable =>
                session'.out = Return(desktop.config.encryptedKey.plain)
          /\ /\ ~PlainKeyUsable
             /\ desktop.config.file \in {"absent", "json"}
             /\ desktop.config.encryptedKey.form = "none"
             /\ KeychainKeyUsable
             => session'.out = Return(DbKey)
          /\ ~PlainKeyUsable /\ desktop.config.key # <<>> =>
                session'.out # Return(desktop.config.key)]_vars

\* get_encryption_key has returned the upper-case "key" of a config.json
\* that also holds an encryptedKey, without a run of `security`, although
\* the credential store would have handed out the password
C16_Witness ==
    /\ session.op = "get_encryption_key"
    /\ desktop.config.key = <<"A", "B">>
    /\ session.out = Return(<<"A", "B">>)
    /\ session.accesses = 0
    /\ EncryptedKeyUsable

\* C17: get_encryption_key fails only if all three sources fail: when the
\* key of config.json cannot be read or decrypted and the credential store
\* holds the key, it returns that key; and when it fails it raises
\* DesktopImportError and no other exception.
C17_FailsOnlyIfAllSourcesFail ==
    [][KeyCallStep =>
          /\ ~PlainKeyUsable /\ ~EncryptedKeyUsable /\ KeychainKeyUsable =>
                session'.out = Return(DbKey)
          /\ session'.out.kind = "raise" =>
                session'.out.exc = "DesktopImportError"]_vars

\* C18: when the database file of Signal Desktop does not exist, connect
\* and import_all raise DesktopImportError without a run of `security`,
\* without a key, without a connection, and without a change of the store.
C18_NotInstalledFailsFirst ==
    [][/\ ~desktop.installed
       /\ imp.pc = "idle"
       /\ session'.op \in {"connect", "import_all"}
       => /\ session'.out = Raise("DesktopImportError")
          /\ session'.accesses = session.accesses
          /\ ~session'.hasKey
          /\ ~session'._conn
          /\ imp' = imp
          /\ UNCHANGED <<messages, conversations, lastOp, commits>>]_vars

\* import_all has failed on a machine without the database file where
\* config.json holds an encryptedKey and the credential store its password
C18_Witness ==
    /\ ~desktop.installed
    /\ session.op = "import_all"
    /\ session.out = Raise("DesktopImportError")
    /\ session.accesses = 0
    /\ ~PlainKeyUsable
    /\ EncryptedKeyUsable
    /\ messages = EmptyBag

\* the step is a call of get_or_create_encryption_key
VaultCallStep == vault'.op = "get_or_create_encryption_key"

\* the key an entry holds, as hex text
KeyOf(entry) == Hex(b64decode(entry.text))

\* C19: get_or_create_encryption_key returns the existing key, generating
\* and storing nothing, whenever the credential store holds an entry; with
\* no entry it generates a key, stores it and returns exactly the stored
\* key; it raises KeychainError whenever the generated key was not stored.
C19_GetOrCreate ==
    [][VaultCallStep =>
          /\ vault.entry.present =>
                /\ vault'.out = Return(KeyOf(vault.entry))
                /\ vault'.generated = <<>>
                /\ vault'.entry = vault.entry
          /\ ~vault.entry.present /\ vault'.out.kind = "return" =>
                /\ vault'.generated # <<>>
                /\ vault'.out.key = vault'.generated
                /\ vault'.entry.present
                /\ KeyOf(vault'.entry) = vault'.out.key
          /\ vault'.out.kind = "raise" => vault'.out.exc = "KeychainError"
          /\ /\ vault'.generated # <<>>
             /\ ~(vault'.entry.present /\ KeyOf(vault'.entry) = vault'.generated)
             => vault'.out = Raise("KeychainError")]_vars

\* C20: no call of get_or_create_encryption_key deletes or replaces an
\* entry that holds a key; when the retrieval of the entry fails, the call
\* raises KeychainError and leaves the entry as it is.
C20_KeyNeverRegenerated ==
    [][VaultCallStep /\ vault.entry.present =>
          /\ vault'.entry = vault.entry
          /\ vault'.out # Return(KeyOf(vault.entry)) =>
                vault'.out = Raise("KeychainError")]_vars

\* C21: decrypting, with the password it was encrypted under, the envelope
\* that encrypt_for_safe_storage made of a plaintext returns that plaintext,
\* for tag v10 (1003 iterations) and for tag v11 (1 iteration), for
\* plaintexts of whole blocks and for the empty plaintext.
C21_CodecRoundTrip ==
    /\ codec.op = "decrypt"
    /\ codec.made = "encrypt"
    /\ codec.with = codec.password
    => /\ codec.result.out = [kind |-> "return", key |-> codec.text, exc |-> ""]
       /\ codec.result.derived

\* an envelope with tag v11 of a plaintext of exactly one block, made under
\* the empty password, has been decrypted
C21_Witness ==
    /\ codec.op = "decrypt"
    /\ codec.made = "encrypt"
    /\ codec.version = TagV11
    /\ codec.password = <<>>
    /\ codec.with = <<>>
    /\ codec.text = Fill(BlockSize, 97)
    /\ Len(FromHex(codec.envelope)) = 3 + 2 * BlockSize
    /\ codec.result.out.kind = "return"
    /\ codec.result.out.key = codec.text

\* the bytes of the last envelope
EnvelopeBytes == FromHex(codec.envelope)

\* the last envelope does not start with b"v10" or b"v11"
OtherHeader ==
    \/ Len(EnvelopeBytes) < 3
    \/ SubSeq(EnvelopeBytes, 1, 3) \notin {TagV10, TagV11}

\* C22: an envelope whose first 3 bytes are neither "v10" nor "v11", one
\* shorter than 3 bytes included, is rejected with DesktopImportError
\* (unknown encryption version) before the key is derived and before
\* anything is decrypted; no plaintext is returned.
C22_OtherVersionRejected ==
    codec.op = "decrypt" /\ OtherHeader =>
       /\ codec.result.out =
             [kind |-> "raise", key |-> <<>>, exc |-> "DesktopImportError"]
       /\ ~codec.result.derived
       /\ codec.result.decrypted = <<>>

\* the envelope b"v1", two bytes long, has been rejected
C22_Witness ==
    /\ codec.op = "decrypt"
    /\ codec.made = "receive"
    /\ EnvelopeBytes = <<118, 49>>
    /\ codec.result.out.kind = "raise"
    /\ codec.result.out.exc = "DesktopImportError"
    /\ ~codec.result.derived

\* the data the decryptor produced does not end in a PKCS#7 padding: its
\* last byte is outside 1..16, or the bytes it counts are not all equal to
\* it
BadPadding(decrypted) ==
    LET n == decrypted[Len(decrypted)]
    IN \/ n < 1
       \/ n > BlockSize
       \/ n > Len(decrypted)
       \/ \E i \in (Len(decrypted) - n + 1)..Len(decrypted) : decrypted[i] # n

\* C23: when the decrypted data does not end in a PKCS#7 padding, the codec
\* fails and returns no key: never a truncated or an empty text (stated for
\* decryptions with the password the envelope was made under, where the
\* decrypted data is the data that was sealed).
C23_PaddingChecked ==
    /\ codec.op = "decrypt"
    /\ codec.with = codec.password
    /\ codec.result.decrypted # <<>>
    /\ BadPadding(codec.result.decrypted)
    => codec.result.out.kind = "raise"

\* query occurs in body as a substring, letters compared in either case
Contains(body, query) ==
    \E k \in 0..(Len(body) - Len(query)) :
       \A i \in 1..Len(query) : Lower(body[k + i]) = Lower(query[i])

\* the stored messages, of every conversation, whose body contains query
Containing(query) == {i \in Instances(messages) : Contains(i[1].body, query)}

\* C24: search_messages(query, limit) returns at most limit pairs, ordered
\* by sent_at descending: exactly the most recent stored messages, of all
\* conversations, whose body contains query as a literal substring in
\* either case, the characters % and _ of the query matched literally.
C24_SearchLiteralSubstring ==
    \A query \in Queries, limit \in Limits :
       /\ \A s \in SearchRows(messages, query, limit) :
             /\ Len(s) = Min(limit, Cardinality(Containing(query)))
             /\ \A k \in 1..Len(s) : s[k] \in Containing(query)
             /\ \A j, k \in 1..Len(s) : j < k => s[j][1].sent_at >= s[k][1].sent_at
             /\ \A q \in Containing(query) \ {s[k] : k \in 1..Len(s)} :
                   \A k \in 1..Len(s) : q[1].sent_at <= s[k][1].sent_at
       /\ \A res \in search_messages(messages, query, limit) :
             /\ Len(res) <= limit
             /\ \A k \in 1..Len(res) : Contains(res[k][2].body, query)

\* C25: save_message returns a positive row id when the message is new; for
\* a duplicate it returns a value that is no error (-1) and that cannot be
\* taken for the row id of a newly inserted message.
C25_DuplicateDistinguishable ==
    \A c \in ConvIds, m \in MessagesOver({ShortBody}) :
       \A ret \in lastrowid(messages, SaveRow(c, m)) :
          IF DedupKey(SaveRow(c, m)) \in StoredKeys(messages)
          THEN ret \notin RowIds /\ ret # -1
          ELSE ret \in RowIds

\* the number of rows of table messages that hold row value r
CopiesOf(msgs, r) == IF r \in BagToSet(msgs) THEN msgs[r] ELSE 0

\* row r with its read flag set
AsRead(r) == [r EXCEPT !.isRead = TRUE]

\* the number of rows of table messages that are r in every column but
\* isRead
CopiesAnyFlag(msgs, r) ==
    CopiesOf(msgs, AsRead(r)) +
    CopiesOf(msgs, [r EXCEPT !.isRead = FALSE])

\* C26: no step of a store operation or of import_all deletes a message row
\* or changes a column of it other than isRead, which only goes from 0 to
\* 1; no step deletes a conversation row.
C26_RowsNeverDeleted ==
    [][/\ \A r \in BagToSet(messages) :
             /\ CopiesAnyFlag(messages, r) <= CopiesAnyFlag(messages', r)
             /\ CopiesOf(messages, AsRead(r)) <= CopiesOf(messages', AsRead(r))
       /\ DOMAIN conversations \subseteq DOMAIN conversations']_vars

\* mark_messages_read has acted after a run of import_all: the live message
\* and the imported one are both stored, both read, and both conversation
\* rows that were created are there
C26_Witness ==
    /\ results # <<>>
    /\ imp.pc = "idle"
    /\ lastOp.op = "mark_messages_read"
    /\ BagCardinality(messages) = 2
    /\ \A r \in BagToSet(messages) : r.isRead
    /\ \E r \in BagToSet(messages) : r.conversationId = "+1" /\ r.sent_at = 2
    /\ "+1" \in DOMAIN conversations
    /\ conversations["+1"].unreadCount = 0
    /\ Cardinality(DOMAIN conversations) = 2

\* C27: in no committed state that a crash or a failure of the aggregation
\* leaves behind is there a message row of save_message without a
\* conversation row for its conversation id whose lastMessageAt is at least
\* the sent_at of the message.
C27_SaveMessageAtomic ==
    CanCall =>
       \A r \in BagToSet(messages) :
          /\ r.conversationId \in DOMAIN conversations
          /\ conversations[r.conversationId].lastMessageAt # NULL
          /\ conversations[r.conversationId].lastMessageAt >= r.sent_at

\* C28: the committed state that an interrupted mark_messages_read leaves
\* behind has the messages of the conversation read exactly when the
\* unreadCount of its row is zero.
C28_MarkReadOneUnit ==
    (call.op = "mark_messages_read" /\ call.pc = "crashed"
        /\ call.c \in DOMAIN conversations)
      => (get_unread_count(messages, call.c) = 0
            <=> conversations[call.c].unreadCount = 0)

\* C29: get_all_conversations returns every conversation row exactly once,
\* by lastMessageAt descending, and every conversation whose lastMessageAt
\* is NULL after every conversation that has one.
C29_AllConversationsOrdered ==
    /\ get_all_conversations(conversations) # {}
    /\ \A res \in get_all_conversations(conversations) :
          /\ Len(res) = Cardinality(DOMAIN conversations)
          /\ \A c \in DOMAIN conversations :
                Cardinality({i \in 1..Len(res) : res[i].id = c}) = 1
          /\ \A i \in 1..Len(res) :
                /\ res[i].id \in DOMAIN conversations
                /\ res[i].last_message_at =
                      conversations[res[i].id].lastMessageAt
          /\ \A i, j \in 1..Len(res) :
                i < j =>
                   \/ res[j].last_message_at = NULL
                   \/ /\ res[i].last_message_at # NULL
                      /\ res[i].last_message_at >= res[j].last_message_at

\* the conversation made by ensure_conversation has no lastMessageAt and the
\* other one has a message: the list has the second one first
C29_Witness ==
    /\ DOMAIN conversations = {"+1", "g1"}
    /\ conversations["+1"].lastMessageAt = NULL
    /\ conversations["g1"].lastMessageAt = 2
    /\ \A res \in get_all_conversations(conversations) :
          /\ Len(res) = 2
          /\ res[1].id = "g1" /\ res[1].last_message_at = 2
          /\ res[2].id = "+1" /\ res[2].last_message_at = NULL

\* C30: when save_message creates the conversation row, the new row has
\* lastMessageAt equal to the time of the message and unreadCount 1 if the
\* message is incoming and unread, 0 if it is outgoing or already read.
C30_CreatedRowUnreadCount ==
    [][\A c \in ConvIds, m \in MessagesOver({ShortBody}) :
          (SaveMessage(c, m) /\ c \notin DOMAIN conversations) =>
             /\ c \in DOMAIN conversations'
             /\ conversations'[c].lastMessageAt = SentAtOf(m.timestamp)
             /\ conversations'[c].unreadCount =
                   IF ~m.is_outgoing /\ ~m.is_read THEN 1 ELSE 0]_vars

\* C31: when save_message is given a message whose sent_at is lower than the
\* lastMessageAt of the conversation row that exists, the row is left as it
\* is; when sent_at is not lower (or lastMessageAt is NULL) the row gets the
\* preview and the sent_at of the message; unreadCount goes up, by exactly
\* 1, only in the second case and only for an incoming unread message.
C31_OlderMessageLeavesRow ==
    [][lastOp'.op = "save_message" =>
          \A c \in DOMAIN conversations, m \in MessagesOver({ShortBody}) :
             SaveMessage(c, m) =>
                LET old     == conversations[c]
                    new     == conversations'[c]
                    sent_at == SentAtOf(m.timestamp)
                    applies == old.lastMessageAt = NULL
                                  \/ sent_at >= old.lastMessageAt
                IN /\ ~applies => new = old
                   /\ applies => /\ new.lastMessageAt = sent_at
                                 /\ new.lastMessage = Preview(m.body)
                   /\ new.unreadCount =
                         IF applies /\ ~m.is_outgoing /\ ~m.is_read
                         THEN old.unreadCount + 1 ELSE old.unreadCount
                   /\ new.name = old.name /\ new.type = old.type]_vars

\* save_message has just stored an unread incoming message older than the
\* last message of its conversation: the row still shows the newer message
\* and counts no unread message
C31_Witness ==
    /\ lastOp.op = "save_message" /\ lastOp.ret = 1
    /\ "+1" \in DOMAIN conversations
    /\ conversations["+1"].lastMessageAt = 2
    /\ conversations["+1"].unreadCount = 0
    /\ \E i \in RowsOf(messages, "+1") :
          i[1].sent_at = 1 /\ ~i[1].isRead /\ i[1].type = "incoming"
    /\ \E i \in RowsOf(messages, "+1") : i[1].sent_at = 2 /\ i[1].isRead

\* the pairs of the batch that bulk_insert_messages inserts into table msgs
\* (their dedup key is not stored when their turn comes), by position
Written(msgs, batch) ==
    {k \in 1..Len(batch) :
        RowCount(BulkLoop(msgs, batch, k - 1).msgs,
                 BulkRow(batch[k][1], batch[k][2])) > 0}

\* the greatest element of a set of numbers that is not empty
MaxOf(S) == CHOOSE x \in S : \A y \in S : y <= x

\* C32: among messages of one conversation with the same sent_at and
\* different bodies, the one written last gives the preview: a save_message
\* whose sent_at equals lastMessageAt leaves its own preview in the row, and
\* after a batch of bulk_insert_messages and the aggregation pass the row has
\* the preview of the last message the batch wrote at the greatest sent_at
\* of the conversation.
C32_TieBreakLastWritten ==
    \A c \in DOMAIN conversations :
       /\ \A m \in MessagesOver(Bodies) :
             SentAtOf(m.timestamp) = conversations[c].lastMessageAt =>
                UpdateConversationOnMessage(conversations, c, m)[c].lastMessage
                   = Preview(m.body)
       /\ \A batch \in Batches({c}, Bodies) :
             LET done == BulkLoop(messages, batch, Len(batch)).msgs
                 top  == MaxOf({i[1].sent_at : i \in RowsOf(done, c)})
                 tied == {k \in Written(messages, batch) :
                             SentAtOf(batch[k][2].timestamp) = top}
                 last == batch[MaxOf(tied)][2]
             IN (/\ tied # {}
                 /\ \E i \in RowsOf(done, c) :
                       i[1].sent_at = top /\ i[1].body # last.body)
                => \A row \in NewestRows(done, c) :
                      AggregateFromRow(conversations, c, row)[c].lastMessage
                         = Preview(last.body)

\* C33: in every reachable state of the store the lastMessage of each
\* conversation row has at most 100 characters and is empty (a row made by
\* ensure_conversation, nothing aggregated into it), or the first 100
\* characters of the body of a stored message of the conversation, or
\* "[Attachment]" for a stored message with an empty body.
C33_PreviewBounded ==
    \A c \in DOMAIN conversations :
       LET text == conversations[c].lastMessage
       IN /\ Len(text) <= PreviewLen
          /\ \/ text = <<>> /\ conversations[c].lastMessageAt = NULL
             \/ \E i \in RowsOf(messages, c) :
                   /\ i[1].body # <<>>
                   /\ Len(text) = IF Len(i[1].body) < PreviewLen
                                  THEN Len(i[1].body) ELSE PreviewLen
                   /\ \A k \in 1..Len(text) : text[k] = i[1].body[k]
             \/ \E i \in RowsOf(messages, c) :
                   /\ i[1].body = <<>>
                   /\ text = AttachmentPlaceholder

\* the conversation shows a message whose body is longer than a preview: the
\* first 100 characters and not the last one
C33_Witness ==
    /\ "+1" \in DOMAIN conversations
    /\ Len(conversations["+1"].lastMessage) = PreviewLen
    /\ \A k \in 1..PreviewLen : conversations["+1"].lastMessage[k] = "a"
    /\ \E i \in RowsOf(messages, "+1") : i[1].body = LongBody
    /\ PreviewLen < Len(LongBody)

\* C34: an instance of the store never has more than one live connection;
\* close raises nothing and leaves no connection, and a close with no
\* connection changes nothing; an operation after close opens a new
\* connection with the key the instance has cached, without a call of
\* get_or_create_encryption_key (an instance makes at most one), and a
\* query through it returns the committed rows.
C34_ConnectionLifecycle ==
    [][/\ Cardinality(store'.live) <= 1
       /\ store'.vaultCalls <= 1
       /\ store'.op = "close" =>
             /\ store'.out = ReturnNone
             /\ store'._conn = 0 /\ store'.live = {}
             /\ store._conn = 0 =>
                   /\ store'.live = store.live
                   /\ store'.closes = store.closes
                   /\ store'.opens = store.opens
             /\ messages' = messages /\ conversations' = conversations
       /\ (store.made /\ store._conn = 0 /\ store'._conn # 0) =>
             /\ store'._encryption_key = store._encryption_key
             /\ store'.vaultCalls = store.vaultCalls
             /\ vault' = vault
             /\ store'._conn \notin store.live
       /\ (store'.op = "get_message_count" /\ store'.out.kind = "return") =>
             /\ store'._conn # 0
             /\ store'.out.value = BagCardinality(messages)]_vars

\* after a close, get_message_count has opened the second connection of the
\* instance and counted the message committed through the first
C34_Witness ==
    /\ store.made
    /\ store.op = "get_message_count"
    /\ store.opens = 2 /\ store.closes = 1
    /\ store._conn = 2 /\ store.live = {2}
    /\ store.vaultCalls = 1
    /\ store.out = ReturnValue(1)
    /\ BagCardinality(messages) = 1

\* an outcome of _get_conn in which the canary query failed
CanaryFailed(out) == out.kind = "raise" /\ out.exc = "RuntimeError"

\* C37: when the canary query of _get_conn fails, the handle is closed, the
\* instance holds no connection and the call raises; the exception raised
\* for a wrong key (type and message) differs from the one the same call
\* raises for an I/O failure; the next call opens a new handle.
C37_OpenFailure ==
    [][CanaryFailed(store'.out) =>
          /\ store'._conn = 0
          /\ store'.live = store.live
          /\ \A p \in _get_conn(IF store.made THEN store
                                ELSE NewInstance(store), vault) :
                (CanaryFailed(p.out) /\ p.out.cause # store'.out.cause) =>
                   <<p.out.exc, p.out.msg>> # <<store'.out.exc, store'.out.msg>>
          /\ \A n \in _get_conn(store', vault') :
                n.out.kind # "raise" =>
                   /\ n.store._conn > store'.opens
                   /\ n.store.live = {n.store._conn}]_vars

\* conversation c has no stored message, or a row whose lastMessageAt is not
\* lower than the sent_at of any of its stored messages
RowCoversMessages(c) ==
    RowsOf(messages, c) # {} =>
       /\ c \in DOMAIN conversations
       /\ conversations[c].lastMessageAt # NULL
       /\ \A i \in RowsOf(messages, c) :
             i[1].sent_at <= conversations[c].lastMessageAt

\* C36: when the process stops inside import_all, every conversation whose
\* processing was completed has its messages stored and its row aggregated,
\* and no conversation is left with stored messages and no conversation row,
\* or with a row whose lastMessageAt is lower than its newest stored
\* message.
C36_ImportCrashSafe ==
    imp.pc = "crashed" =>
       /\ \A k \in 1..imp.i :
             /\ RowsStored(messages, foreign[k])
             /\ RowCoversMessages(foreign[k].id)
       /\ \A c \in ConvIds : RowCoversMessages(c)

\* the tables after the calls of the two threads ran one after the other,
\* thread first before the other
SerialOrder(first) ==
    LET second == CHOOSE t \in Threads : t # first
    IN CallAlone(CallAlone(threads.base, threads.frame[first]),
                 threads.frame[second])

\* both threads have returned from their calls
ThreadsDone == \A t \in Threads : threads.frame[t].pc = "done"

\* C35: when two threads that share one MessageStore call save_message or
\* mark_messages_read on the same conversation, every interleaving ends in
\* the state of some serial order of the two calls, and no call fails on
\* the INSERT of the conversation row
C35_ThreadsSerializable ==
    ThreadsDone =>
       /\ \E first \in Threads :
             Tables(messages, conversations) = SerialOrder(first)
       /\ \A t \in Threads :
             threads.frame[t].out \notin
                {ReturnValue(-1), Raise("IntegrityError")}

\* C38: when connect fails, directly or inside import_all, it raises
\* DesktopImportError and the importer holds no connection afterwards, so
\* that the next call connects again instead of querying through a handle
\* the canary query rejected
C38_ConnectFailureReleases ==
    (session.op \in {"connect", "import_all"} /\ session.out.kind = "raise")
       => /\ session.out = Raise("DesktopImportError")
          /\ ~session._conn

\* C39: import_from_desktop releases the foreign database on every path:
\* when it returns or lets an exception of import_all through, the
\* importer's connection is None, and a further disconnect changes nothing
C39_AlwaysDisconnected ==
    [][(call.op = "import_from_desktop" /\ call'.op = "none")
          => /\ ~session'._conn
             /\ disconnect(session') = session'
             /\ disconnect(disconnect(session)) = disconnect(session)]_vars

\* import_from_desktop let an exception through after connect had opened
\* the database with a key that is not its key
C39_Witness ==
    /\ session.op = "import_from_desktop"
    /\ session.out.kind = "raise"
    /\ session.hasKey
    /\ ~session._conn

====
